---------------------------- MODULE Spec2Model ----------------------------
(***************************************************************************)
(* Model of pycpp/adaptor: the lazily initialised singletons of            *)
(* singleton.h (heap_singleton, stack_singleton; single- and               *)
(* multi-threaded specialisations) and the opaque handles of heap_pimpl.h  *)
(* (unique_heap_pimpl, shared_heap_pimpl) and stack_pimpl.h (stack_pimpl   *)
(* and the layout check of its embedded buffer).                           *)
(*                                                                         *)
(* Singleton part.  One build of one singleton type is modelled per        *)
(* behaviour: Init picks the storage kind, the ThreadSafe template         *)
(* argument and whether NDEBUG is defined.  A get() of a multi-threaded    *)
(* specialisation is one action per atomic operation, so that calls        *)
(* interleave; the destructor is one action per statement, with a stack    *)
(* of frames per thread, because `delete tmp` / `r.~T()` destroys a T,     *)
(* and T derives from the singleton base, so the base destructor is        *)
(* re-entered from within itself.                                          *)
(*                                                                         *)
(* Memory model of the atomics: every load reads the latest store (the     *)
(* modification order of the single marker), and happens-before is kept    *)
(* as views: view[t] is the set of payload objects whose construction      *)
(* happens-before thread t's next step; a release store attaches the       *)
(* writer's view to the marker, an acquire (or seq_cst) load merges it     *)
(* into the reader's view, a relaxed load merges nothing; mutex unlock     *)
(* and lock are a release and an acquire on the mutex.                     *)
(***************************************************************************)
EXTENDS Naturals, Sequences, FiniteSets

\* ------------------------------------------------------------------ bounds
\* threads of the multi-threaded specialisations
NThreads == 2
\* operations started in one behaviour: get() calls (each call's argument is
\* its number) and destructions of objects of the derived type that were
\* created directly, outside get()
MaxOps == 3

VARIABLES
    kind,           \* "heap" (heap_singleton) or "stack" (stack_singleton)
    thread_safe,    \* the ThreadSafe template argument
    ndebug,         \* TRUE when NDEBUG is defined (assert compiled out)
    data_,          \* heap_singleton::data_: 0 is nullptr, n > 0 is object n
    initialized_,   \* stack_singleton::initialized_
    bufObj,         \* stack_singleton::data_: the object last constructed in the buffer, 0 if none
    mu_,            \* mu_: 0 when free, else the thread holding it
    inst,           \* payload objects ever constructed, in order of construction
    pc,             \* per thread: position inside get(), or "idle"
    arg,            \* per thread: the argument ts... of the running get()
    p,              \* per thread: the local p of heap get(); for stack get() the object r refers to
    first,          \* per thread: what the call's first read of the marker saw
    locked,         \* per thread: whether the running call has acquired mu_
    frames,         \* per thread: stack of singleton-destructor frames
    view,           \* per thread: objects whose construction happens-before the thread
    markerView,     \* view attached to the marker by its latest store
    muView,         \* view attached to mu_ by its latest unlock
    nCalls,         \* get() calls started so far
    madeDirect,     \* directly created objects whose destructor has been entered
    ret,            \* single-threaded get(): the object the last call returned, 0 before any call
    assert_failed,  \* assert(... "Singleton used outside of pattern.") failed: abort()
    exited,         \* the process has exited normally
    \* ---- heap_pimpl.h
    always_equal,   \* allocator_traits<Allocator>::is_always_equal
    cells,          \* heap allocations ever made, in order of allocation
    uh,             \* unique_heap_pimpl objects: ptr_ as pointer and deleter
    sh,             \* shared_heap_pimpl objects: ptr_
    lastOp,         \* the member function that ran last, and its operands
    nOps,           \* member functions of handles run so far
    crashed,        \* a null ptr_ was dereferenced, or swap's assert failed
    \* ---- stack_pimpl.h
    layout,         \* sizeof(T), alignof(T) and the template arguments Size, Alignment
    usesDtor,       \* the program destroys a stack_pimpl: ~stack_pimpl is instantiated
    phase,          \* "source", then "built" or "rejected" by the compiler
    sp              \* stack_pimpl objects: the payload in mem_, constructor and destructor calls seen by mem_

svars == <<kind, thread_safe, ndebug, data_, initialized_, bufObj, mu_, inst,
           pc, arg, p, first, locked, frames, view, markerView, muView,
           nCalls, madeDirect, ret, assert_failed, exited>>

kvars == <<layout, usesDtor, phase, sp>>

pvars == <<always_equal, cells, uh, sh, lastOp, nOps, crashed, kvars>>

vars == <<svars, pvars>>

\* ----------------------------------------------------------------- helpers
Threads == IF thread_safe THEN 1..NThreads ELSE {1}

Running == ~assert_failed /\ ~exited

Idle(t) == pc[t] = "idle" /\ frames[t] = <<>>

\* Threads are interchangeable: two idle threads with the same view differ in
\* nothing, so of such threads only the lowest-numbered starts an operation
CanStart(t) ==
    /\ Idle(t)
    /\ \A u \in Threads : u < t => ~(Idle(u) /\ view[u] = view[t])

\* the frame on top of thread t's destructor stack
Top(t) == frames[t][Len(frames[t])]

SetTop(t, f) == [frames EXCEPT ![t] = [@ EXCEPT ![Len(@)] = f]]

Push(t, f, g) == [frames EXCEPT ![t] = Append([@ EXCEPT ![Len(@)] = f], g)]

Pop(t) == [frames EXCEPT ![t] = SubSeq(@, 1, Len(@) - 1)]

\* a base-destructor frame; self is the payload object
\* whose destructor chain entered it, 0 for a directly created object; tmp is
\* the heap destructor's local, flag the stack destructor's local tmp, obj the
\* object r.~T() is destroying
NewFrame(self) == [pc |-> "enter", tmp |-> 0, flag |-> FALSE, obj |-> 0, self |-> self]

\* a load of the given memory order by a thread with view `own` of a
\* location whose latest store attached `attached`
LoadView(order, own, attached) ==
    IF order \in {"acquire", "seq_cst"} THEN own \cup attached ELSE own

\* what a store of the given memory order by a thread with view `own` attaches
StoreView(order, own) ==
    IF order \in {"release", "seq_cst"} THEN own ELSE {}

\* new T(args...) / new (&r) T(args...): the constructor has started
BeginCtor(a) == Append(inst, [val |-> a, st |-> "constructing", dtors |-> 0, frees |-> 0])

\* the constructor has returned
EndCtor(n) == [inst EXCEPT ![n].st = "live"]

\* ~T() starts on object n
BeginDtor(n) == [inst EXCEPT ![n].st = "destroying", ![n].dtors = @ + 1]


\* what no member function of the singletons changes: the build, and the
\* state of the handles of heap_pimpl.h
cfg == <<kind, thread_safe, ndebug, pvars>>
slot == <<data_, initialized_, bufObj>>
loc == <<pc, arg, p, first, locked>>
memv == <<view, markerView, muView>>
env == <<madeDirect, assert_failed, exited>>

\* the locals of a get() call that has returned
Return(t) ==
    /\ pc' = [pc EXCEPT ![t] = "idle"]
    /\ arg' = [arg EXCEPT ![t] = 0]
    /\ p' = [p EXCEPT ![t] = 0]
    /\ first' = [first EXCEPT ![t] = "none"]
    /\ locked' = [locked EXCEPT ![t] = FALSE]

\* -------------------------------------------------------------------- Init
\* heap_singleton<T, false>::data_ = nullptr, heap_singleton<T, true>::data_ =
\* ATOMIC_VAR_INIT(nullptr), stack_singleton::initialized_ = false, mu_ unlocked
SInit ==
    /\ kind \in {"heap", "stack"}
    /\ thread_safe \in BOOLEAN
    /\ ndebug \in BOOLEAN
    /\ data_ = 0
    /\ initialized_ = FALSE
    /\ bufObj = 0
    /\ mu_ = 0
    /\ inst = <<>>
    /\ pc = [t \in 1..NThreads |-> "idle"]
    /\ arg = [t \in 1..NThreads |-> 0]
    /\ p = [t \in 1..NThreads |-> 0]
    /\ first = [t \in 1..NThreads |-> "none"]
    /\ locked = [t \in 1..NThreads |-> FALSE]
    /\ frames = [t \in 1..NThreads |-> <<>>]
    /\ view = [t \in 1..NThreads |-> {}]
    /\ markerView = {}
    /\ muView = {}
    /\ nCalls = 0
    /\ madeDirect = 0
    /\ ret = 0
    /\ assert_failed = FALSE
    /\ exited = FALSE

\* ------------------------------------------- heap_singleton<T, false>::get
\* a get() that constructs on every call, whatever data_ holds
HeapAlwaysInit == TRUE

\* line 109: if (data_ == nullptr)
HeapNeedsInit == data_ = 0

\* lines 102-113, one call, the single thread: construct on a null pointer,
\* return *data_
HeapGetST(t) ==
    /\ Running /\ kind = "heap" /\ ~thread_safe
    /\ Idle(t) /\ nCalls + madeDirect < MaxOps
    /\ nCalls' = nCalls + 1
    /\ IF HeapNeedsInit
          THEN /\ inst' = [BeginCtor(nCalls + 1) EXCEPT ![Len(inst) + 1].st = "live"]
               /\ data_' = Len(inst) + 1
          ELSE UNCHANGED <<inst, data_>>
    /\ ret' = data_'
    /\ UNCHANGED <<cfg, initialized_, bufObj, mu_, loc, frames, memv, env>>

\* ------------------------------------------ stack_singleton<..., false>::get
\* line 236: if (!initialized_)
StackNeedsInit == ~initialized_

\* lines 228-241, one call: placement-construct in data_ when the flag is
\* clear, set the flag, return the reference to the buffer
StackGetST(t) ==
    /\ Running /\ kind = "stack" /\ ~thread_safe
    /\ Idle(t) /\ nCalls + madeDirect < MaxOps
    /\ nCalls' = nCalls + 1
    /\ IF StackNeedsInit
          THEN /\ inst' = [BeginCtor(nCalls + 1) EXCEPT ![Len(inst) + 1].st = "live"]
               /\ bufObj' = Len(inst) + 1
               /\ initialized_' = TRUE
          ELSE UNCHANGED <<inst, bufObj, initialized_>>
    /\ ret' = bufObj'
    /\ UNCHANGED <<cfg, data_, mu_, loc, frames, memv, env>>

\* ------------------------------------------- heap_singleton<T, true>::get
\* a first read of the marker that does not synchronise with the store
HeapGetLoadRelaxed == "relaxed"

\* line 155: data_.load(memory_order_acquire)
HeapGetLoadOrder == "acquire"
\* line 158: data_.load(memory_order_relaxed)
HeapGetRecheckOrder == "relaxed"
\* line 161: data_.store(p, memory_order_release)
HeapGetStoreOrder == "release"

\* a get() that takes the mutex whatever its first read saw
HeapAlwaysLock(q) == "h157"

\* where the call goes after the first read p of the marker (line 156)
HeapAfterLoad(q) == IF q = 0 THEN "h157" ELSE "h164"

\* lines 148-156: a thread enters get(ts...); T* p = data_.load(acquire);
\* if (p == nullptr)
HeapGetLoad(t) ==
    /\ Running /\ kind = "heap" /\ thread_safe
    /\ CanStart(t) /\ nCalls + madeDirect < MaxOps
    /\ nCalls' = nCalls + 1
    /\ arg' = [arg EXCEPT ![t] = nCalls + 1]
    /\ p' = [p EXCEPT ![t] = data_]
    /\ first' = [first EXCEPT ![t] = IF data_ = 0 THEN "unset" ELSE "set"]
    /\ view' = [view EXCEPT ![t] = LoadView(HeapGetLoadOrder, @, markerView)]
    /\ pc' = [pc EXCEPT ![t] = HeapAfterLoad(data_)]
    /\ UNCHANGED <<cfg, slot, mu_, inst, locked, frames, markerView, muView, env, ret>>

\* line 157: lock_guard<mutex> lock(mu_)
HeapGetLock(t) ==
    /\ Running /\ pc[t] = "h157"
    /\ mu_ = 0
    /\ mu_' = t
    /\ locked' = [locked EXCEPT ![t] = TRUE]
    /\ view' = [view EXCEPT ![t] = @ \cup muView]
    /\ pc' = [pc EXCEPT ![t] = "h158"]
    /\ UNCHANGED <<cfg, slot, inst, arg, p, first, frames, markerView, muView,
                   nCalls, env, ret>>

\* a get() that does not look at the marker again under the lock
HeapNoRecheck(q) == "h160"

\* where the call goes after the read q under the lock (line 159)
HeapAfterRecheck(q) == IF q = 0 THEN "h160" ELSE "h164"

\* lines 158-159: p = data_.load(relaxed); if (p == nullptr)
HeapGetRecheck(t) ==
    /\ Running /\ pc[t] = "h158"
    /\ p' = [p EXCEPT ![t] = data_]
    /\ view' = [view EXCEPT ![t] = LoadView(HeapGetRecheckOrder, @, markerView)]
    /\ pc' = [pc EXCEPT ![t] = HeapAfterRecheck(data_)]
    /\ UNCHANGED <<cfg, slot, mu_, inst, arg, first, locked, frames, markerView,
                   muView, nCalls, env, ret>>

\* line 160, first half: new T(...) has allocated and entered T's constructor
HeapGetNew(t) ==
    /\ Running /\ pc[t] = "h160"
    /\ inst' = BeginCtor(arg[t])
    /\ p' = [p EXCEPT ![t] = Len(inst) + 1]
    /\ pc' = [pc EXCEPT ![t] = "h160c"]
    /\ UNCHANGED <<cfg, slot, mu_, arg, first, locked, frames, memv, nCalls, env, ret>>

\* line 160, second half: the constructor returns and p is assigned
HeapGetConstructed(t) ==
    /\ Running /\ pc[t] = "h160c"
    /\ inst' = EndCtor(p[t])
    /\ view' = [view EXCEPT ![t] = @ \cup {p[t]}]
    /\ pc' = [pc EXCEPT ![t] = "h161"]
    /\ UNCHANGED <<cfg, slot, mu_, arg, p, first, locked, frames, markerView, muView,
                   nCalls, env, ret>>

\* line 161: data_.store(p, memory_order_release)
HeapGetStore(t) ==
    /\ Running /\ pc[t] = "h161"
    /\ data_' = p[t]
    /\ markerView' = StoreView(HeapGetStoreOrder, view[t])
    /\ pc' = [pc EXCEPT ![t] = "h164"]
    /\ UNCHANGED <<cfg, initialized_, bufObj, mu_, inst, arg, p, first, locked, frames,
                   view, muView, nCalls, env, ret>>

\* a return that leaves the mutex locked
HeapGetReturnKeepLock(t) ==
    /\ Running /\ pc[t] = "h164"
    /\ Return(t)
    /\ UNCHANGED <<cfg, slot, mu_, inst, frames, memv, nCalls, env, ret>>

\* lines 163-164: the lock_guard (if the call made one) unlocks, return *p
HeapGetReturn(t) ==
    /\ Running /\ pc[t] = "h164"
    /\ IF locked[t]
          THEN mu_' = 0 /\ muView' = view[t]
          ELSE UNCHANGED <<mu_, muView>>
    /\ Return(t)
    /\ UNCHANGED <<cfg, slot, inst, frames, view, markerView, nCalls, env, ret>>

\* ------------------------------------------ stack_singleton<..., true>::get
\* line 297: initialized_.load()
StackGetLoadOrder == "seq_cst"
\* line 299: initialized_.load()
StackGetRecheckOrder == "seq_cst"
\* line 301: initialized_.store(true, memory_order_release)
StackGetStoreOrder == "release"

\* where the call goes after the first read b of the flag (line 297)
StackAfterLoad(b) == IF b THEN "s304" ELSE "s298"

\* lines 289-297: a thread enters get(ts...) and binds r to the buffer;
\* if (!initialized_.load())
StackGetLoad(t) ==
    /\ Running /\ kind = "stack" /\ thread_safe
    /\ CanStart(t) /\ nCalls + madeDirect < MaxOps
    /\ nCalls' = nCalls + 1
    /\ arg' = [arg EXCEPT ![t] = nCalls + 1]
    /\ first' = [first EXCEPT ![t] = IF initialized_ THEN "set" ELSE "unset"]
    /\ view' = [view EXCEPT ![t] = LoadView(StackGetLoadOrder, @, markerView)]
    /\ pc' = [pc EXCEPT ![t] = StackAfterLoad(initialized_)]
    /\ UNCHANGED <<cfg, slot, mu_, inst, p, locked, frames, markerView, muView, env, ret>>

\* line 298: lock_guard<mutex> lock(mu_)
StackGetLock(t) ==
    /\ Running /\ pc[t] = "s298"
    /\ mu_ = 0
    /\ mu_' = t
    /\ locked' = [locked EXCEPT ![t] = TRUE]
    /\ view' = [view EXCEPT ![t] = @ \cup muView]
    /\ pc' = [pc EXCEPT ![t] = "s299"]
    /\ UNCHANGED <<cfg, slot, inst, arg, p, first, frames, markerView, muView,
                   nCalls, env, ret>>

\* where the call goes after the read b under the lock (line 299)
StackAfterRecheck(b) == IF b THEN "s304" ELSE "s300"

\* line 299: if (!initialized_.load())
StackGetRecheck(t) ==
    /\ Running /\ pc[t] = "s299"
    /\ view' = [view EXCEPT ![t] = LoadView(StackGetRecheckOrder, @, markerView)]
    /\ pc' = [pc EXCEPT ![t] = StackAfterRecheck(initialized_)]
    /\ UNCHANGED <<cfg, slot, mu_, inst, arg, p, first, locked, frames, markerView,
                   muView, nCalls, env, ret>>

\* line 300, first half: new (&r) value_type(...) has entered T's constructor
StackGetNew(t) ==
    /\ Running /\ pc[t] = "s300"
    /\ inst' = BeginCtor(arg[t])
    /\ bufObj' = Len(inst) + 1
    /\ p' = [p EXCEPT ![t] = Len(inst) + 1]
    /\ pc' = [pc EXCEPT ![t] = "s300c"]
    /\ UNCHANGED <<cfg, data_, initialized_, mu_, arg, first, locked, frames, memv,
                   nCalls, env, ret>>

\* line 300, second half: the constructor returns
StackGetConstructed(t) ==
    /\ Running /\ pc[t] = "s300c"
    /\ inst' = EndCtor(p[t])
    /\ view' = [view EXCEPT ![t] = @ \cup {p[t]}]
    /\ pc' = [pc EXCEPT ![t] = "s301"]
    /\ UNCHANGED <<cfg, slot, mu_, arg, p, first, locked, frames, markerView, muView,
                   nCalls, env, ret>>

\* line 301: initialized_.store(true, memory_order_release)
StackGetStore(t) ==
    /\ Running /\ pc[t] = "s301"
    /\ initialized_' = TRUE
    /\ markerView' = StoreView(StackGetStoreOrder, view[t])
    /\ pc' = [pc EXCEPT ![t] = "s304"]
    /\ UNCHANGED <<cfg, data_, bufObj, mu_, inst, arg, p, first, locked, frames,
                   view, muView, nCalls, env, ret>>

\* lines 303-304: the lock_guard (if the call made one) unlocks, return r:
\* the caller holds the object that is in the buffer
StackGetReturn(t) ==
    /\ Running /\ pc[t] = "s304"
    /\ IF locked[t]
          THEN mu_' = 0 /\ muView' = view[t]
          ELSE UNCHANGED <<mu_, muView>>
    /\ Return(t)
    /\ UNCHANGED <<cfg, slot, inst, frames, view, markerView, nCalls, env, ret>>

\* ----------------------------------------------- heap_singleton destructors
\* line 175: data_.load(memory_order_acquire); line 123 is a plain read
HeapDtorLoadOrder == IF thread_safe THEN "acquire" ELSE "plain"
\* line 176: data_.store(nullptr, memory_order_release); line 124 is a plain write
HeapDtorStoreOrder == IF thread_safe THEN "release" ELSE "plain"

\* a base destructor that acts on the object it is the base of
HeapDtorEnterOwn(self) == [NewFrame(self) EXCEPT !.pc = "clear", !.tmp = self]

\* lines 120-123 and 172-175: the base destructor is entered and reads
\* value_type* tmp = data_
HeapDtorEnter(self) == [NewFrame(self) EXCEPT !.pc = "clear", !.tmp = data_]

\* lines 116, 168: the protected default constructor lets the derived type
\* be instantiated directly (`my_struct s;`, lines 25-32) and does not touch
\* the slot.  Such an object goes out of scope in thread t: ~T() runs and
\* then ~heap_singleton() is entered
HeapDestroyDirect(t) ==
    /\ Running /\ kind = "heap"
    /\ CanStart(t) /\ nCalls + madeDirect < MaxOps
    /\ madeDirect' = madeDirect + 1
    /\ frames' = [frames EXCEPT ![t] = <<HeapDtorEnter(0)>>]
    /\ view' = [view EXCEPT ![t] = LoadView(HeapDtorLoadOrder, @, markerView)]
    /\ UNCHANGED <<cfg, slot, mu_, inst, loc, markerView, muView, nCalls, ret,
                   assert_failed, exited>>

\* a destructor that leaves the slot as it is and goes on to delete tmp
HeapDtorNoClear(t) ==
    /\ Running /\ kind = "heap"
    /\ frames[t] # <<>> /\ Top(t).pc = "clear"
    /\ frames' = SetTop(t, [Top(t) EXCEPT !.pc = "delete"])
    /\ UNCHANGED <<cfg, slot, mu_, inst, loc, memv, nCalls, env, ret>>

\* a destructor that clears the slot under the mutex get() initialises it
\* under
HeapDtorClearLocked(t) ==
    /\ Running /\ kind = "heap"
    /\ frames[t] # <<>> /\ Top(t).pc = "clear"
    /\ thread_safe => mu_ = 0
    /\ data_' = 0
    /\ markerView' = StoreView(HeapDtorStoreOrder, view[t])
    /\ frames' = SetTop(t, [Top(t) EXCEPT !.pc = "delete"])
    /\ UNCHANGED <<cfg, initialized_, bufObj, mu_, inst, loc, view, muView, nCalls,
                   env, ret>>

\* lines 124 and 176: data_ = nullptr
HeapDtorClear(t) ==
    /\ Running /\ kind = "heap"
    /\ frames[t] # <<>> /\ Top(t).pc = "clear"
    /\ data_' = 0
    /\ markerView' = StoreView(HeapDtorStoreOrder, view[t])
    /\ frames' = SetTop(t, [Top(t) EXCEPT !.pc = "delete"])
    /\ UNCHANGED <<cfg, initialized_, bufObj, mu_, inst, loc, view, muView, nCalls,
                   env, ret>>

\* lines 125 and 177: delete tmp.  On a non-null pointer ~T() starts on *tmp
\* and, T deriving from heap_singleton<T>, enters the base destructor again;
\* delete of nullptr does nothing
HeapDtorDelete(t) ==
    /\ Running /\ kind = "heap"
    /\ frames[t] # <<>> /\ Top(t).pc = "delete"
    /\ IF Top(t).tmp # 0
          THEN /\ inst' = BeginDtor(Top(t).tmp)
               /\ frames' = Push(t, [Top(t) EXCEPT !.pc = "free"],
                                 HeapDtorEnter(Top(t).tmp))
               /\ view' = [view EXCEPT ![t] = LoadView(HeapDtorLoadOrder, @, markerView)]
          ELSE /\ frames' = SetTop(t, [Top(t) EXCEPT !.pc = "assert"])
               /\ UNCHANGED <<inst, view>>
    /\ UNCHANGED <<cfg, slot, mu_, loc, markerView, muView, nCalls, env, ret>>

\* lines 125 and 177, end of delete tmp: the destructor chain of *tmp has
\* returned and operator delete releases the storage
HeapDtorFree(t) ==
    /\ Running /\ kind = "heap"
    /\ frames[t] # <<>> /\ Top(t).pc = "free"
    /\ inst' = [inst EXCEPT ![Top(t).tmp].st = "dead", ![Top(t).tmp].frees = @ + 1]
    /\ frames' = SetTop(t, [Top(t) EXCEPT !.pc = "assert"])
    /\ UNCHANGED <<cfg, slot, mu_, loc, memv, nCalls, env, ret>>

\* an assert that accepts a null tmp
HeapAssertAnything(tmp) == TRUE

\* lines 127 and 179: the condition of the assert
HeapAssertHolds(tmp) == tmp # 0

\* lines 126-129 and 178-181: without NDEBUG, assert(tmp != nullptr && ...)
\* aborts the process when it fails; otherwise the destructor returns
HeapDtorAssert(t) ==
    /\ Running /\ kind = "heap"
    /\ frames[t] # <<>> /\ Top(t).pc = "assert"
    /\ IF ~ndebug /\ ~HeapAssertHolds(Top(t).tmp)
          THEN assert_failed' = TRUE /\ UNCHANGED frames
          ELSE frames' = Pop(t) /\ UNCHANGED assert_failed
    /\ UNCHANGED <<cfg, slot, mu_, inst, loc, memv, nCalls, madeDirect, ret, exited>>

\* ---------------------------------------------- stack_singleton destructors
\* line 316: initialized_.load(memory_order_acquire); line 253 is a plain read
StackDtorLoadOrder == IF thread_safe THEN "acquire" ELSE "plain"
\* line 317: initialized_.store(false, memory_order_release); line 254 is a plain write
StackDtorStoreOrder == IF thread_safe THEN "release" ELSE "plain"

\* lines 248-253 and 312-316: the base destructor is entered and reads
\* bool tmp = initialized_
StackDtorEnter(self) == [NewFrame(self) EXCEPT !.pc = "clear", !.flag = initialized_]

\* lines 244, 308: a directly created object of the derived type goes out of
\* scope in thread t: ~T() runs and then ~stack_singleton() is entered
StackDestroyDirect(t) ==
    /\ Running /\ kind = "stack"
    /\ CanStart(t) /\ nCalls + madeDirect < MaxOps
    /\ madeDirect' = madeDirect + 1
    /\ frames' = [frames EXCEPT ![t] = <<StackDtorEnter(0)>>]
    /\ view' = [view EXCEPT ![t] = LoadView(StackDtorLoadOrder, @, markerView)]
    /\ UNCHANGED <<cfg, slot, mu_, inst, loc, markerView, muView, nCalls, ret,
                   assert_failed, exited>>

\* lines 254 and 317: initialized_ = false
StackDtorClear(t) ==
    /\ Running /\ kind = "stack"
    /\ frames[t] # <<>> /\ Top(t).pc = "clear"
    /\ initialized_' = FALSE
    /\ markerView' = StoreView(StackDtorStoreOrder, view[t])
    /\ frames' = SetTop(t, [Top(t) EXCEPT !.pc = "delete"])
    /\ UNCHANGED <<cfg, data_, bufObj, mu_, inst, loc, view, muView, nCalls, env, ret>>

\* lines 255-257 and 318-320: if (tmp) r.~T().  ~T() starts on the object in
\* the buffer and, T deriving from stack_singleton<T, ...>, enters the base
\* destructor again
StackDtorDestroy(t) ==
    /\ Running /\ kind = "stack"
    /\ frames[t] # <<>> /\ Top(t).pc = "delete"
    /\ IF Top(t).flag
          THEN /\ inst' = BeginDtor(bufObj)
               /\ frames' = Push(t, [Top(t) EXCEPT !.pc = "free", !.obj = bufObj],
                                 StackDtorEnter(bufObj))
               /\ view' = [view EXCEPT ![t] = LoadView(StackDtorLoadOrder, @, markerView)]
          ELSE /\ frames' = SetTop(t, [Top(t) EXCEPT !.pc = "assert"])
               /\ UNCHANGED <<inst, view>>
    /\ UNCHANGED <<cfg, slot, mu_, loc, markerView, muView, nCalls, env, ret>>

\* lines 256 and 319, end of r.~T(): the destructor chain has returned; the
\* buffer is static storage and is not released
StackDtorDestroyed(t) ==
    /\ Running /\ kind = "stack"
    /\ frames[t] # <<>> /\ Top(t).pc = "free"
    /\ inst' = [inst EXCEPT ![Top(t).obj].st = "dead"]
    /\ frames' = SetTop(t, [Top(t) EXCEPT !.pc = "assert"])
    /\ UNCHANGED <<cfg, slot, mu_, loc, memv, nCalls, env, ret>>

\* lines 259 and 322: the condition of the assert
StackAssertHolds(flag) == flag

\* lines 258-261 and 321-324: without NDEBUG, assert(tmp && ...) aborts the
\* process when it fails; otherwise the destructor returns
StackDtorAssert(t) ==
    /\ Running /\ kind = "stack"
    /\ frames[t] # <<>> /\ Top(t).pc = "assert"
    /\ IF ~ndebug /\ ~StackAssertHolds(Top(t).flag)
          THEN assert_failed' = TRUE /\ UNCHANGED frames
          ELSE frames' = Pop(t) /\ UNCHANGED assert_failed
    /\ UNCHANGED <<cfg, slot, mu_, inst, loc, memv, nCalls, madeDirect, ret, exited>>

\* ------------------------------------------------------------ process exit
\* lines 131-137, 183-194, 263-274, 326-342: the slot is a static raw pointer,
\* or a static aligned_storage_t with a static bool / atomic<bool>; none has
\* a destructor, so normal exit runs no code of the singleton
Exit ==
    /\ Running
    /\ \A t \in 1..NThreads : Idle(t)
    /\ exited' = TRUE
    /\ UNCHANGED <<cfg, slot, mu_, inst, loc, frames, memv, nCalls, madeDirect,
                   ret, assert_failed>>

\* ------------------------------------------------------------ next states
\* calls of get() only: the program follows the singleton pattern
GetNext ==
    \/ \E t \in Threads : HeapGetST(t)
    \/ \E t \in Threads : StackGetST(t)
    \/ \E t \in Threads : HeapGetLoad(t)
    \/ \E t \in Threads : HeapGetLock(t)
    \/ \E t \in Threads : HeapGetRecheck(t)
    \/ \E t \in Threads : HeapGetNew(t)
    \/ \E t \in Threads : HeapGetConstructed(t)
    \/ \E t \in Threads : HeapGetStore(t)
    \/ \E t \in Threads : HeapGetReturn(t)
    \/ \E t \in Threads : StackGetLoad(t)
    \/ \E t \in Threads : StackGetLock(t)
    \/ \E t \in Threads : StackGetRecheck(t)
    \/ \E t \in Threads : StackGetNew(t)
    \/ \E t \in Threads : StackGetConstructed(t)
    \/ \E t \in Threads : StackGetStore(t)
    \/ \E t \in Threads : StackGetReturn(t)

\* destruction of objects of the derived type
DtorNext ==
    \/ \E t \in Threads : HeapDestroyDirect(t)
    \/ \E t \in Threads : HeapDtorClear(t)
    \/ \E t \in Threads : HeapDtorDelete(t)
    \/ \E t \in Threads : HeapDtorFree(t)
    \/ \E t \in Threads : HeapDtorAssert(t)
    \/ \E t \in Threads : StackDestroyDirect(t)
    \/ \E t \in Threads : StackDtorClear(t)
    \/ \E t \in Threads : StackDtorDestroy(t)
    \/ \E t \in Threads : StackDtorDestroyed(t)
    \/ \E t \in Threads : StackDtorAssert(t)

SNext == GetNext \/ DtorNext \/ Exit

\* the next statement of the base destructor thread t is in
DtorStep(t) ==
    \/ HeapDtorClear(t)
    \/ HeapDtorDelete(t)
    \/ HeapDtorFree(t)
    \/ HeapDtorAssert(t)
    \/ StackDtorClear(t)
    \/ StackDtorDestroy(t)
    \/ StackDtorDestroyed(t)
    \/ StackDtorAssert(t)

\* ======================================================== heap_pimpl.h
\* handles of each class
NHandles == 2
\* member functions of handles run in one behaviour
MaxHandleOps == 4
\* payload values are 0..MaxVal
MaxVal == 1
\* allocator instances that compare unequal to each other
NAllocs == 2

Handles == 1..NHandles
PVals == 0..MaxVal

\* value_type(): the value-initialised payload
DefaultVal == 0
\* line 171, `Allocator a;`: the default-constructed allocator
DefaultAlloc == 1

\* the allocator instances a program can make: with
\* allocator_traits::is_always_equal every instance compares equal to the
\* default-constructed one.  Instances are only ever compared for equality,
\* so they are numbered in the order of their first use: instance a can be
\* passed once every lower-numbered instance has made an allocation
Allocs ==
    IF always_equal
       THEN {DefaultAlloc}
       ELSE {a \in 1..NAllocs :
                \A b \in 1..(a - 1) :
                    b = DefaultAlloc \/ \E c \in DOMAIN cells : cells[c].by = b}

\* what the member functions of the heap handles leave alone: every
\* singleton variable but ndebug, which swap reads, and the stack_pimpl objects
sfix == <<kind, thread_safe, data_, initialized_, bufObj, mu_, inst, pc, arg, p,
          first, locked, frames, view, markerView, muView, nCalls, madeDirect,
          ret, assert_failed, exited, kvars>>

\* ---------------------------------------------------------- stack_pimpl.h
\* sizeof(T) and the Size argument range over 1..MaxSize
MaxSize == 2
\* alignof(T) and the Alignment argument range over 2^0 .. 2^MaxAlignExp
MaxAlignExp == 1

RECURSIVE Pow2(_)
Pow2(e) == IF e = 0 THEN 1 ELSE 2 * Pow2(e - 1)

Sizes == 1..MaxSize
Alignments == {Pow2(e) : e \in 0..MaxAlignExp}

\* a payload type T and an instantiation stack_pimpl<T, Size, Alignment>
Layouts ==
    [sizeofT : Sizes, alignofT : Alignments, Size : Sizes, Alignment : Alignments]

\* lines 107-115: assert_storage<T, Size, Alignment>(): both static_asserts hold
assert_storage(l) == l.sizeofT = l.Size /\ l.alignofT <= l.Alignment

\* lines 118-127: storage_asserter<T, Size, Alignment>{} instantiates
\* assert_storage
storage_asserter(l) == assert_storage(l)

\* lines 306-307: mem_ is aligned_storage_t<Size, Alignment>; a T constructed
\* at its address lies within it and is properly aligned
Fits(l) == l.sizeofT <= l.Size /\ l.alignofT <= l.Alignment

\* the layout of the default instantiation, Size = sizeof(T) and the
\* strictest alignment
DefaultLayout ==
    [sizeofT |-> MaxSize, alignofT |-> Pow2(0), Size |-> MaxSize,
     Alignment |-> Pow2(MaxAlignExp)]

NoPimpl == [st |-> "none", val |-> 0, at |-> 0, ctors |-> 0, dtors |-> 0]

\* a built program without any stack_pimpl object
KInit ==
    /\ layout = DefaultLayout /\ usesDtor = TRUE /\ phase = "built"
    /\ sp = [h \in 1..NHandles |-> NoPimpl]

NoHandle == [st |-> "none", ptr |-> 0, del |-> 0]

PInit ==
    /\ always_equal \in BOOLEAN
    /\ cells = <<>>
    /\ uh = [h \in Handles |-> NoHandle]
    /\ sh = [h \in Handles |-> NoHandle]
    /\ lastOp = [op |-> "none", dst |-> 0, src |-> 0]
    /\ nOps = 0
    /\ crashed = FALSE
    /\ KInit

\* traits_type::allocate(a, 1) and traits_type::construct(a, ptr, v): a new
\* live allocation holding v, made by allocator a
Allocate(a, v) == Append(cells, [val |-> v, st |-> "live", by |-> a, frees |-> 0])

\* lines 161-176: Allocator a; storage_type(allocate(a, 1), deleter_type(a));
\* construct(a, ptr.get(), ts...); the unique_ptr and the heap after it
make_heap_pimpl(v) ==
    [heap |-> Allocate(DefaultAlloc, v), ptr |-> Len(cells) + 1, del |-> DefaultAlloc]

\* lines 179-195: the same with Allocator a(alloc)
allocate_heap_pimpl(alloc, v) ==
    [heap |-> Allocate(alloc, v), ptr |-> Len(cells) + 1, del |-> alloc]

\* line 428: la == ra, for allocator instances a and b
AllocEqual(a, b) == a = b

\* the deleter allocator_destructor<Allocator, 1> bound to allocator a runs on
\* allocation c of heap hp: the payload it held is gone, and the storage is
\* "freed" when a equals the allocator that made it, "misfreed" when it went
\* to an allocator that never made it; frees counts the runs of a deleter on c
Delete(hp, c, a) ==
    [hp EXCEPT ![c].st = IF AllocEqual(a, hp[c].by) THEN "freed" ELSE "misfreed",
               ![c].val = 0, ![c].frees = @ + 1]

\* lines 380-392: get() is *ptr_; the payload value read through handle h
UGet(h) == cells[uh[h].ptr].val

UAlive(h) == uh[h].st = "alive"

\* the handle is a live object holding a non-null ptr_
UDeref(h) == UAlive(h) /\ uh[h].ptr # 0

PRunning == ~crashed /\ nOps < MaxHandleOps

\* member function op ran on handle h with operand x
Did(op, h, x) ==
    /\ lastOp' = [op |-> op, dst |-> h, src |-> x]
    /\ nOps' = nOps + 1

\* *ptr_ on a null ptr_
Crash(op, h, x) ==
    /\ crashed' = TRUE
    /\ Did(op, h, x)
    /\ UNCHANGED <<always_equal, cells, uh, sh, ndebug, sfix>>

\* handle h is initialised with the unique_ptr r by constructor op
UInit(h, r, op, x) ==
    /\ cells' = r.heap
    /\ uh' = [uh EXCEPT ![h] = [st |-> "alive", ptr |-> r.ptr, del |-> r.del]]
    /\ Did(op, h, x)

\* a constructor of handle h may run: handles are numbered in the order of
\* their construction
UCanConstruct(h) ==
    /\ PRunning /\ uh[h].st = "none"
    /\ \A g \in 1..(h - 1) : uh[g].st # "none"

\* lines 226-228: unique_heap_pimpl()
UniqueDefaultCtor(h) ==
    /\ UCanConstruct(h)
    /\ UInit(h, make_heap_pimpl(DefaultVal), "default_ctor", 0)
    /\ UNCHANGED <<always_equal, sh, crashed, ndebug, sfix>>

\* lines 230-234: unique_heap_pimpl(const allocator_type& alloc)
UniqueAllocCtor(h, alloc) ==
    /\ UCanConstruct(h)
    /\ UInit(h, allocate_heap_pimpl(alloc, DefaultVal), "alloc_ctor", 0)
    /\ UNCHANGED <<always_equal, sh, crashed, ndebug, sfix>>

\* a copy constructor that copies the pointer instead of the payload
UniqueCopyCtorShallow(h, x) ==
    /\ UCanConstruct(h) /\ UAlive(x)
    /\ uh' = [uh EXCEPT ![h] = [st |-> "alive", ptr |-> uh[x].ptr, del |-> uh[x].del]]
    /\ Did("copy_ctor", h, x)
    /\ UNCHANGED <<always_equal, cells, sh, crashed, ndebug, sfix>>

\* a copy constructor that allocates with the allocator of x
UniqueCopyCtorSameAlloc(h, x) ==
    /\ UCanConstruct(h) /\ UAlive(x)
    /\ IF uh[x].ptr # 0
          THEN /\ UInit(h, allocate_heap_pimpl(uh[x].del, UGet(x)), "copy_ctor", x)
               /\ UNCHANGED <<always_equal, sh, crashed, ndebug, sfix>>
          ELSE Crash("copy_ctor", h, x)

\* lines 237-241: unique_heap_pimpl(const unique_heap_pimpl& x)
UniqueCopyCtor(h, x) ==
    /\ UCanConstruct(h) /\ UAlive(x)
    /\ IF uh[x].ptr # 0
          THEN /\ UInit(h, make_heap_pimpl(UGet(x)), "copy_ctor", x)
               /\ UNCHANGED <<always_equal, sh, crashed, ndebug, sfix>>
          ELSE Crash("copy_ctor", h, x)

\* lines 243-248: unique_heap_pimpl(const unique_heap_pimpl& x, const allocator_type& alloc)
UniqueCopyCtorAlloc(h, x, alloc) ==
    /\ UCanConstruct(h) /\ UAlive(x)
    /\ IF uh[x].ptr # 0
          THEN /\ UInit(h, allocate_heap_pimpl(alloc, UGet(x)), "copy_ctor_alloc", x)
               /\ UNCHANGED <<always_equal, sh, crashed, ndebug, sfix>>
          ELSE Crash("copy_ctor_alloc", h, x)

\* lines 250-254: unique_heap_pimpl(const value_type& x)
UniqueValueCtor(h, v) ==
    /\ UCanConstruct(h)
    /\ UInit(h, make_heap_pimpl(v), "value_ctor", 0)
    /\ UNCHANGED <<always_equal, sh, crashed, ndebug, sfix>>

\* lines 256-261: unique_heap_pimpl(const value_type& x, const allocator_type& alloc)
UniqueValueCtorAlloc(h, v, alloc) ==
    /\ UCanConstruct(h)
    /\ UInit(h, allocate_heap_pimpl(alloc, v), "value_ctor_alloc", 0)
    /\ UNCHANGED <<always_equal, sh, crashed, ndebug, sfix>>

\* handle h is move-constructed from handle x through the unique_ptr r, whose
\* payload was move-constructed from x.get(): x keeps its own allocation, and
\* its payload is left in a valid but unspecified state w
UMoveInit(h, r, op, x, w) ==
    /\ cells' = [r.heap EXCEPT ![uh[x].ptr].val = w]
    /\ uh' = [uh EXCEPT ![h] = [st |-> "alive", ptr |-> r.ptr, del |-> r.del]]
    /\ Did(op, h, x)

\* a move constructor that adopts the allocation of x and leaves x empty
UniqueMoveCtorAdopt(h, x) ==
    /\ UCanConstruct(h) /\ UAlive(x)
    /\ uh' = [uh EXCEPT ![h] = [st |-> "alive", ptr |-> uh[x].ptr, del |-> uh[x].del],
                        ![x].ptr = 0]
    /\ Did("move_ctor", h, x)
    /\ UNCHANGED <<always_equal, cells, sh, crashed, ndebug, sfix>>

\* lines 264-269: unique_heap_pimpl(unique_heap_pimpl&& x):
\* make_heap_pimpl(move(x.get()))
UniqueMoveCtor(h, x) ==
    /\ UCanConstruct(h) /\ UAlive(x)
    /\ IF uh[x].ptr # 0
          THEN /\ \E w \in PVals : UMoveInit(h, make_heap_pimpl(UGet(x)), "move_ctor", x, w)
               /\ UNCHANGED <<always_equal, sh, crashed, ndebug, sfix>>
          ELSE Crash("move_ctor", h, x)

\* lines 271-277: unique_heap_pimpl(unique_heap_pimpl&& x, const allocator_type& alloc)
UniqueMoveCtorAlloc(h, x, alloc) ==
    /\ UCanConstruct(h) /\ UAlive(x)
    /\ IF uh[x].ptr # 0
          THEN /\ \E w \in PVals :
                      UMoveInit(h, allocate_heap_pimpl(alloc, UGet(x)), "move_ctor_alloc", x, w)
               /\ UNCHANGED <<always_equal, sh, crashed, ndebug, sfix>>
          ELSE Crash("move_ctor_alloc", h, x)

\* lines 279-284: unique_heap_pimpl(value_type&& x)
UniqueRvalueCtor(h, v) ==
    /\ UCanConstruct(h)
    /\ UInit(h, make_heap_pimpl(v), "rvalue_ctor", 0)
    /\ UNCHANGED <<always_equal, sh, crashed, ndebug, sfix>>

\* lines 286-292: unique_heap_pimpl(value_type&& x, const allocator_type& alloc)
UniqueRvalueCtorAlloc(h, v, alloc) ==
    /\ UCanConstruct(h)
    /\ UInit(h, allocate_heap_pimpl(alloc, v), "rvalue_ctor_alloc", 0)
    /\ UNCHANGED <<always_equal, sh, crashed, ndebug, sfix>>

\* an assignment that replaces the allocation of handle h by a new one
\* holding v
UAssignRealloc(h, v, op, x) ==
    /\ cells' = Append(Delete(cells, uh[h].ptr, uh[h].del),
                       [val |-> v, st |-> "live", by |-> uh[h].del, frees |-> 0])
    /\ uh' = [uh EXCEPT ![h].ptr = Len(cells) + 1]
    /\ Did(op, h, x)
    /\ UNCHANGED <<always_equal, sh, crashed, ndebug, sfix>>

\* the payload of handle h is assigned v in place: get() = v
UAssign(h, v, op, x) ==
    /\ cells' = [cells EXCEPT ![uh[h].ptr].val = v]
    /\ Did(op, h, x)
    /\ UNCHANGED <<always_equal, uh, sh, crashed, ndebug, sfix>>

\* lines 295-304: operator=(const unique_heap_pimpl& x): if (this != &x)
\* get() = x.get()
UniqueCopyAssign(h, x) ==
    /\ PRunning /\ UAlive(h) /\ UAlive(x)
    /\ IF h = x
          THEN /\ Did("copy_assign", h, x)
               /\ UNCHANGED <<always_equal, cells, uh, sh, crashed, ndebug, sfix>>
          ELSE IF uh[h].ptr # 0 /\ uh[x].ptr # 0
                  THEN UAssign(h, UGet(x), "copy_assign", x)
                  ELSE Crash("copy_assign", h, x)

\* lines 306-313: operator=(const value_type& x): get() = x
UniqueValueAssign(h, v) ==
    /\ PRunning /\ UAlive(h)
    /\ IF uh[h].ptr # 0
          THEN UAssign(h, v, "value_assign", 0)
          ELSE Crash("value_assign", h, 0)

\* a move assignment that takes the pointer of x and keeps its own deleter
UniqueMoveAssignKeepDeleter(h, x) ==
    /\ PRunning /\ UAlive(h) /\ UAlive(x)
    /\ IF h = x
          THEN UNCHANGED <<cells, uh>>
          ELSE /\ cells' = IF uh[h].ptr # 0 THEN Delete(cells, uh[h].ptr, uh[h].del) ELSE cells
               /\ uh' = [uh EXCEPT ![h].ptr = uh[x].ptr, ![x].ptr = 0]
    /\ Did("move_assign", h, x)
    /\ UNCHANGED <<always_equal, sh, crashed, ndebug, sfix>>

\* lines 315-325: operator=(unique_heap_pimpl&& x): if (this != &x)
\* ptr_ = move(x.ptr_): the unique_ptr releases what it held through its own
\* deleter, takes x's pointer and x's deleter, and leaves x.ptr_ null
UniqueMoveAssign(h, x) ==
    /\ PRunning /\ UAlive(h) /\ UAlive(x)
    /\ IF h = x
          THEN UNCHANGED <<cells, uh>>
          ELSE /\ cells' = IF uh[h].ptr # 0 THEN Delete(cells, uh[h].ptr, uh[h].del) ELSE cells
               /\ uh' = [uh EXCEPT ![h].ptr = uh[x].ptr, ![h].del = uh[x].del, ![x].ptr = 0]
    /\ Did("move_assign", h, x)
    /\ UNCHANGED <<always_equal, sh, crashed, ndebug, sfix>>

\* lines 327-335: operator=(value_type&& x): get() = move(x)
UniqueRvalueAssign(h, v) ==
    /\ PRunning /\ UAlive(h)
    /\ IF uh[h].ptr # 0
          THEN UAssign(h, v, "rvalue_assign", 0)
          ELSE Crash("rvalue_assign", h, 0)

\* lines 338-392: the non-const operator*, operator->, operator reference and
\* get() hand out the payload, and the caller writes v to it
UniqueWrite(h, v) ==
    /\ PRunning /\ UAlive(h)
    /\ IF uh[h].ptr # 0
          THEN UAssign(h, v, "write", 0)
          ELSE Crash("write", h, 0)

\* a swap that exchanges the pointers whatever the allocators are
UniqueSwapUnchecked(h, x) ==
    /\ PRunning /\ UAlive(h) /\ UAlive(x)
    /\ Did("swap", h, x)
    /\ uh' = [uh EXCEPT ![h].ptr = uh[x].ptr, ![x].ptr = uh[h].ptr]
    /\ UNCHANGED <<always_equal, cells, sh, crashed, ndebug, sfix>>

\* a swap that exchanges the payload values and leaves the pointers alone
UniqueSwapValues(h, x) ==
    /\ PRunning /\ UDeref(h) /\ UDeref(x)
    /\ Did("swap", h, x)
    /\ cells' = [cells EXCEPT ![uh[h].ptr].val = cells[uh[x].ptr].val,
                              ![uh[x].ptr].val = cells[uh[h].ptr].val]
    /\ UNCHANGED <<always_equal, uh, sh, crashed, ndebug, sfix>>

\* lines 395-434: swap(x).  With is_always_equal, swap_impl(x, true_type) swaps
\* the two unique_ptr (pointer and deleter); otherwise swap_impl(x, false_type)
\* asserts that the allocators are equal (unless NDEBUG) and exchanges the
\* pointers only, each handle keeping its deleter
UniqueSwap(h, x) ==
    /\ PRunning /\ UAlive(h) /\ UAlive(x)
    /\ Did("swap", h, x)
    /\ IF always_equal
          THEN /\ uh' = [uh EXCEPT ![h] = uh[x], ![x] = uh[h]]
               /\ UNCHANGED crashed
          ELSE IF ~ndebug /\ ~AllocEqual(uh[h].del, uh[x].del)
                  THEN crashed' = TRUE /\ UNCHANGED uh
                  ELSE /\ uh' = [uh EXCEPT ![h].ptr = uh[x].ptr, ![x].ptr = uh[h].ptr]
                       /\ UNCHANGED crashed
    /\ UNCHANGED <<always_equal, cells, sh, ndebug, sfix>>

\* line 406: ptr_ is a unique_ptr; the implicit destructor of the handle
\* destroys it, which runs the deleter on a non-null pointer
UniqueDtor(h) ==
    /\ PRunning /\ UAlive(h)
    /\ cells' = IF uh[h].ptr # 0 THEN Delete(cells, uh[h].ptr, uh[h].del) ELSE cells
    /\ uh' = [uh EXCEPT ![h] = [st |-> "dead", ptr |-> 0, del |-> 0]]
    /\ Did("dtor", h, 0)
    /\ UNCHANGED <<always_equal, sh, crashed, ndebug, sfix>>

\* every member function but swap
UniqueNoSwapNext ==
    \/ \E h \in Handles : UniqueDefaultCtor(h)
    \/ \E h \in Handles, a \in Allocs : UniqueAllocCtor(h, a)
    \/ \E h, x \in Handles : UniqueCopyCtor(h, x)
    \/ \E h, x \in Handles, a \in Allocs : UniqueCopyCtorAlloc(h, x, a)
    \/ \E h \in Handles, v \in PVals : UniqueValueCtor(h, v)
    \/ \E h \in Handles, v \in PVals, a \in Allocs : UniqueValueCtorAlloc(h, v, a)
    \/ \E h, x \in Handles : UniqueMoveCtor(h, x)
    \/ \E h, x \in Handles, a \in Allocs : UniqueMoveCtorAlloc(h, x, a)
    \/ \E h \in Handles, v \in PVals : UniqueRvalueCtor(h, v)
    \/ \E h \in Handles, v \in PVals, a \in Allocs : UniqueRvalueCtorAlloc(h, v, a)
    \/ \E h, x \in Handles : UniqueCopyAssign(h, x)
    \/ \E h \in Handles, v \in PVals : UniqueValueAssign(h, v)
    \/ \E h, x \in Handles : UniqueMoveAssign(h, x)
    \/ \E h \in Handles, v \in PVals : UniqueRvalueAssign(h, v)
    \/ \E h \in Handles, v \in PVals : UniqueWrite(h, v)
    \/ \E h \in Handles : UniqueDtor(h)

UniqueNext ==
    \/ UniqueNoSwapNext
    \/ \E h, x \in Handles : UniqueSwap(h, x)

\* line 428: the precondition of swap_impl(x, false_type), la == ra; with
\* is_always_equal (lines 408-416) swap has none
SwapPrecondition(h, x) == always_equal \/ AllocEqual(uh[h].del, uh[x].del)

\* a program that calls swap only where its precondition holds
ContractNext ==
    \/ UniqueNoSwapNext
    \/ \E h, x \in Handles : SwapPrecondition(h, x) /\ UniqueSwap(h, x)

\* ---------------------------------------------------- shared_heap_pimpl
\* lines 604-606: ptr_ is a shared_ptr<value_type>.  The use count of an
\* allocation is the number of live handles whose ptr_ holds it; the control
\* block keeps a copy of the allocator that made it
SAlive(h) == sh[h].st = "alive"

\* lines 580-592: get() is *ptr_; the payload value read through handle h
SGet(h) == cells[sh[h].ptr].val

\* the live handles of the handle table s that hold allocation c
Holders(s, c) == {g \in Handles : s[g].st = "alive" /\ s[g].ptr = c}

\* a shared_ptr let go of allocation c, the handles being s afterwards: with no
\* holder left the control block destroys the payload and returns the storage
\* to the allocator that made it
Release(hp, c, s) ==
    IF c # 0 /\ Holders(s, c) = {} THEN Delete(hp, c, hp[c].by) ELSE hp

\* the handle table after h has become a live handle holding c
Bind(s, h, c) == [s EXCEPT ![h] = [st |-> "alive", ptr |-> c, del |-> 0]]

\* a constructor of handle h may run: handles are numbered in the order of
\* their construction
SCanConstruct(h) ==
    /\ PRunning /\ sh[h].st = "none"
    /\ \A g \in 1..(h - 1) : sh[g].st # "none"

\* handle h is initialised by constructor op with a new allocation made by
\* allocator a and holding v: make_shared / allocate_shared
SInitNew(h, a, v, op) ==
    /\ cells' = Allocate(a, v)
    /\ sh' = Bind(sh, h, Len(cells) + 1)
    /\ Did(op, h, 0)
    /\ UNCHANGED <<always_equal, uh, crashed, ndebug, sfix>>

\* lines 466-468: shared_heap_pimpl()
SharedDefaultCtor(h) ==
    SCanConstruct(h) /\ SInitNew(h, DefaultAlloc, DefaultVal, "default_ctor")

\* lines 470-475: shared_heap_pimpl(const Allocator& alloc)
SharedAllocCtor(h, alloc) ==
    SCanConstruct(h) /\ SInitNew(h, alloc, DefaultVal, "alloc_ctor")

\* line 478: shared_heap_pimpl(const shared_heap_pimpl& x) = default: ptr_ is
\* copy-constructed from x.ptr_
SharedCopyCtor(h, x) ==
    /\ SCanConstruct(h) /\ SAlive(x)
    /\ sh' = Bind(sh, h, sh[x].ptr)
    /\ Did("copy_ctor", h, x)
    /\ UNCHANGED <<always_equal, cells, uh, crashed, ndebug, sfix>>

\* lines 480-484: shared_heap_pimpl(const value_type& x)
SharedValueCtor(h, v) ==
    SCanConstruct(h) /\ SInitNew(h, DefaultAlloc, v, "value_ctor")

\* lines 486-492: shared_heap_pimpl(const value_type& x, const Allocator& alloc)
SharedValueCtorAlloc(h, v, alloc) ==
    SCanConstruct(h) /\ SInitNew(h, alloc, v, "value_ctor_alloc")

\* line 495: shared_heap_pimpl(shared_heap_pimpl&& x) = default: ptr_ is
\* move-constructed from x.ptr_, which is left null
SharedMoveCtor(h, x) ==
    /\ SCanConstruct(h) /\ SAlive(x)
    /\ sh' = [Bind(sh, h, sh[x].ptr) EXCEPT ![x].ptr = 0]
    /\ Did("move_ctor", h, x)
    /\ UNCHANGED <<always_equal, cells, uh, crashed, ndebug, sfix>>

\* lines 497-502: shared_heap_pimpl(value_type&& x)
SharedRvalueCtor(h, v) ==
    SCanConstruct(h) /\ SInitNew(h, DefaultAlloc, v, "rvalue_ctor")

\* lines 504-511: shared_heap_pimpl(value_type&& x, const Allocator& alloc)
SharedRvalueCtorAlloc(h, v, alloc) ==
    SCanConstruct(h) /\ SInitNew(h, alloc, v, "rvalue_ctor_alloc")

\* a shared_ptr that destroys what it held whenever it lets go of it
SRebindAlways(h, s) ==
    /\ sh' = s
    /\ cells' = IF sh[h].ptr # 0 /\ s[h].ptr # sh[h].ptr
                   THEN Delete(cells, sh[h].ptr, cells[sh[h].ptr].by)
                   ELSE cells
    /\ UNCHANGED <<always_equal, uh, crashed, ndebug, sfix>>

\* the handles become s, handle h having let go of what it held
SRebind(h, s) ==
    /\ sh' = s
    /\ cells' = Release(cells, sh[h].ptr, s)
    /\ UNCHANGED <<always_equal, uh, crashed, ndebug, sfix>>

\* line 514: operator=(const shared_heap_pimpl&) = default: ptr_ = x.ptr_
SharedCopyAssign(h, x) ==
    /\ PRunning /\ SAlive(h) /\ SAlive(x)
    /\ SRebind(h, [sh EXCEPT ![h].ptr = sh[x].ptr])
    /\ Did("copy_assign", h, x)

\* line 515: operator=(shared_heap_pimpl&&) = default: ptr_ = move(x.ptr_);
\* a self-move leaves the handle as it was
SharedMoveAssign(h, x) ==
    /\ PRunning /\ SAlive(h) /\ SAlive(x)
    /\ SRebind(h, IF h = x THEN sh ELSE [sh EXCEPT ![h].ptr = sh[x].ptr, ![x].ptr = 0])
    /\ Did("move_assign", h, x)

\* an assignment that gives handle h a payload of its own holding v
SAssignDetach(h, v, op) ==
    /\ cells' = Allocate(DefaultAlloc, v)
    /\ sh' = [sh EXCEPT ![h].ptr = Len(cells) + 1]
    /\ Did(op, h, 0)
    /\ UNCHANGED <<always_equal, uh, crashed, ndebug, sfix>>

\* the payload of handle h is assigned v in place, or *ptr_ is a null
\* dereference
SAssign(h, v, op) ==
    IF sh[h].ptr # 0
       THEN /\ cells' = [cells EXCEPT ![sh[h].ptr].val = v]
            /\ Did(op, h, 0)
            /\ UNCHANGED <<always_equal, uh, sh, crashed, ndebug, sfix>>
       ELSE Crash(op, h, 0)

\* lines 517-524: operator=(const value_type& x): get() = x
SharedValueAssign(h, v) == PRunning /\ SAlive(h) /\ SAssign(h, v, "value_assign")

\* lines 527-535: operator=(value_type&& x): get() = move(x)
SharedRvalueAssign(h, v) == PRunning /\ SAlive(h) /\ SAssign(h, v, "rvalue_assign")

\* lines 538-592: the non-const operator*, operator->, operator reference and
\* get() hand out the payload, and the caller writes v to it
SharedWrite(h, v) == PRunning /\ SAlive(h) /\ SAssign(h, v, "write")

\* lines 595-602: swap(x): ptr_.swap(x.ptr_)
SharedSwap(h, x) ==
    /\ PRunning /\ SAlive(h) /\ SAlive(x)
    /\ sh' = [sh EXCEPT ![h].ptr = sh[x].ptr, ![x].ptr = sh[h].ptr]
    /\ Did("swap", h, x)
    /\ UNCHANGED <<always_equal, cells, uh, crashed, ndebug, sfix>>

\* the implicit destructor of the handle destroys ptr_
SharedDtor(h) ==
    /\ PRunning /\ SAlive(h)
    /\ SRebind(h, [sh EXCEPT ![h] = [st |-> "dead", ptr |-> 0, del |-> 0]])
    /\ Did("dtor", h, 0)

\* the allocators a shared_heap_pimpl constructor can be given: the class has
\* no allocator parameter of its own
SharedAllocs == 1..NAllocs

SharedNext ==
    \/ \E h \in Handles : SharedDefaultCtor(h)
    \/ \E h \in Handles, a \in SharedAllocs : SharedAllocCtor(h, a)
    \/ \E h, x \in Handles : SharedCopyCtor(h, x)
    \/ \E h \in Handles, v \in PVals : SharedValueCtor(h, v)
    \/ \E h \in Handles, v \in PVals, a \in SharedAllocs : SharedValueCtorAlloc(h, v, a)
    \/ \E h, x \in Handles : SharedMoveCtor(h, x)
    \/ \E h \in Handles, v \in PVals : SharedRvalueCtor(h, v)
    \/ \E h \in Handles, v \in PVals, a \in SharedAllocs : SharedRvalueCtorAlloc(h, v, a)
    \/ \E h, x \in Handles : SharedCopyAssign(h, x)
    \/ \E h, x \in Handles : SharedMoveAssign(h, x)
    \/ \E h \in Handles, v \in PVals : SharedValueAssign(h, v)
    \/ \E h \in Handles, v \in PVals : SharedRvalueAssign(h, v)
    \/ \E h \in Handles, v \in PVals : SharedWrite(h, v)
    \/ \E h, x \in Handles : SharedSwap(h, x)
    \/ \E h \in Handles : SharedDtor(h)

\* ------------------------------------------------------------ stack_pimpl
\* what the member functions of stack_pimpl leave alone
kfix == <<svars, always_equal, cells, uh, sh, layout, usesDtor, phase>>

\* the translation unit is compiled.  The layout check sits in ~stack_pimpl
\* alone (line 235): its static_asserts are evaluated when that member
\* function is instantiated, which happens when the program destroys a
\* stack_pimpl; the constructors (lines 160-222) instantiate no check
Compile ==
    /\ phase = "source"
    /\ phase' = IF usesDtor /\ ~storage_asserter(layout) THEN "rejected" ELSE "built"
    /\ UNCHANGED <<svars, always_equal, cells, uh, sh, lastOp, nOps, crashed,
                   layout, usesDtor, sp>>

BAlive(h) == sp[h].st = "alive"

\* the address of the buffer mem_ (lines 305-307) of handle h: a member of the
\* handle, so every handle has its own and keeps it
BufferOf(h) == h

\* lines 282-294: the address of the reference get() returns:
\* reinterpret_cast<reference>(mem_)
BAddr(h) == BufferOf(h)

\* lines 282-294: get() is reinterpret_cast<reference>(mem_); the payload
\* value read through handle h
BGet(h) == sp[h].val

BRunning == PRunning /\ phase = "built"

\* member function op ran on handle h with operand handle x and value v
BDid(op, h, x, v) ==
    /\ lastOp' = [op |-> op, dst |-> h, src |-> x, val |-> v]
    /\ nOps' = nOps + 1

\* a constructor of handle h may run: handles are numbered in the order of
\* their construction
BCanConstruct(h) ==
    /\ BRunning /\ sp[h].st = "none"
    /\ \A g \in 1..(h - 1) : sp[g].st # "none"

\* new (&get()) value_type(v) in the buffer of handle h of the handle table
\* s: one constructor call in mem_.  In a buffer the payload does not fit
\* the behaviour is undefined: the program goes on, or it is corrupted
BConstruct(s, h, v, op, x) ==
    /\ sp' = [s EXCEPT ![h] = [st |-> "alive", val |-> v, at |-> BAddr(h),
                               ctors |-> s[h].ctors + 1, dtors |-> s[h].dtors]]
    /\ crashed' \in (IF Fits(layout) THEN {FALSE} ELSE BOOLEAN)
    /\ BDid(op, h, x, v)
    /\ UNCHANGED kfix

\* an assignment that destroys the payload and constructs a new one in the
\* buffer
BAssignReconstruct(s, h, v, op, x) ==
    /\ sp' = [s EXCEPT ![h].val = v, ![h].ctors = @ + 1, ![h].dtors = @ + 1]
    /\ BDid(op, h, x, v)
    /\ UNCHANGED <<kfix, crashed>>

\* get() = v in the buffer of handle h of the handle table s: the payload's
\* own assignment
BAssign(s, h, v, op, x) ==
    /\ sp' = [s EXCEPT ![h].val = v]
    /\ BDid(op, h, x, v)
    /\ UNCHANGED <<kfix, crashed>>

\* lines 160-163: stack_pimpl()
PimplDefaultCtor(h) ==
    BCanConstruct(h) /\ BConstruct(sp, h, DefaultVal, "default_ctor", 0)

\* lines 165-170: stack_pimpl(const stack_pimpl& x)
PimplCopyCtor(h, x) ==
    BCanConstruct(h) /\ BAlive(x) /\ BConstruct(sp, h, BGet(x), "copy_ctor", x)

\* lines 172-181: operator=(const stack_pimpl& x): if (this != &x)
\* get() = x.get()
PimplCopyAssign(h, x) ==
    /\ BRunning /\ BAlive(h) /\ BAlive(x)
    /\ BAssign(sp, h, IF h # x THEN BGet(x) ELSE BGet(h), "copy_assign", x)

\* lines 183-188: stack_pimpl(stack_pimpl&& x): the payload of x is left in a
\* valid but unspecified state w
PimplMoveCtor(h, x) ==
    /\ BCanConstruct(h) /\ BAlive(x)
    /\ \E w \in PVals :
          BConstruct([sp EXCEPT ![x].val = w], h, BGet(x), "move_ctor", x)

\* lines 190-199: operator=(stack_pimpl&& x): if (this != &x)
\* get() = move(x.get())
PimplMoveAssign(h, x) ==
    /\ BRunning /\ BAlive(h) /\ BAlive(x)
    /\ IF h # x
          THEN \E w \in PVals :
                  BAssign([sp EXCEPT ![x].val = w], h, BGet(x), "move_assign", x)
          ELSE BAssign(sp, h, BGet(h), "move_assign", x)

\* lines 201-206: stack_pimpl(const value_type& x)
PimplValueCtor(h, v) ==
    BCanConstruct(h) /\ BConstruct(sp, h, v, "value_ctor", 0)

\* a value assignment that leaves the payload as it was
PimplValueAssignLost(h, v) ==
    /\ BRunning /\ BAlive(h)
    /\ BDid("value_assign", h, 0, v)
    /\ UNCHANGED <<kfix, crashed, sp>>

\* lines 208-215: operator=(const value_type& x): get() = x
PimplValueAssign(h, v) ==
    BRunning /\ BAlive(h) /\ BAssign(sp, h, v, "value_assign", 0)

\* lines 217-222: stack_pimpl(value_type&& x)
PimplRvalueCtor(h, v) ==
    BCanConstruct(h) /\ BConstruct(sp, h, v, "rvalue_ctor", 0)

\* lines 224-231: operator=(value_type&& x): get() = move(x)
PimplRvalueAssign(h, v) ==
    BRunning /\ BAlive(h) /\ BAssign(sp, h, v, "rvalue_assign", 0)

\* lines 233-237: ~stack_pimpl(): storage_asserter{}; get().~T(): one
\* destructor call in mem_
PimplDtor(h) ==
    /\ BRunning /\ usesDtor /\ BAlive(h)
    /\ sp' = [sp EXCEPT ![h] = [st |-> "dead", val |-> 0, at |-> 0,
                                ctors |-> sp[h].ctors, dtors |-> sp[h].dtors + 1]]
    /\ BDid("dtor", h, 0, 0)
    /\ UNCHANGED <<kfix, crashed>>

\* lines 240-294: the non-const operator*, operator->, operator reference and
\* get() hand out the payload, and the caller writes v to it
PimplWrite(h, v) ==
    BRunning /\ BAlive(h) /\ BAssign(sp, h, v, "write", 0)

\* fast_swap(a, b) on two payload objects: the payload type's own swap, which
\* exchanges the contents of the two objects where they are
fast_swap(a, b) == <<b, a>>

\* a swap that exchanges the two buffers whole, the payload objects with them
PimplSwapBuffers(h, x) ==
    /\ BRunning /\ BAlive(h) /\ BAlive(x)
    /\ sp' = [sp EXCEPT ![h] = sp[x], ![x] = sp[h]]
    /\ BDid("swap", h, x, 0)
    /\ UNCHANGED <<kfix, crashed>>

\* lines 297-303: swap(x): fast_swap(get(), x.get()) exchanges the two
\* payloads' contents; with x the handle itself the payload is swapped with
\* itself
PimplSwap(h, x) ==
    /\ BRunning /\ BAlive(h) /\ BAlive(x)
    /\ LET r == fast_swap(BGet(h), BGet(x))
       IN  sp' = [sp EXCEPT ![h].val = r[1], ![x].val = r[2]]
    /\ BDid("swap", h, x, 0)
    /\ UNCHANGED <<kfix, crashed>>

PimplNext ==
    \/ \E h \in Handles : PimplDefaultCtor(h)
    \/ \E h, x \in Handles : PimplCopyCtor(h, x)
    \/ \E h, x \in Handles : PimplCopyAssign(h, x)
    \/ \E h, x \in Handles : PimplMoveCtor(h, x)
    \/ \E h, x \in Handles : PimplMoveAssign(h, x)
    \/ \E h \in Handles, v \in PVals : PimplValueCtor(h, v)
    \/ \E h \in Handles, v \in PVals : PimplValueAssign(h, v)
    \/ \E h \in Handles, v \in PVals : PimplRvalueCtor(h, v)
    \/ \E h \in Handles, v \in PVals : PimplRvalueAssign(h, v)
    \/ \E h \in Handles : PimplDtor(h)
    \/ \E h \in Handles, v \in PVals : PimplWrite(h, v)
    \/ \E h, x \in Handles : PimplSwap(h, x)

\* a program that default-constructs stack_pimpl objects and, if it contains
\* their destruction, destroys them
LayoutNext ==
    \/ Compile
    \/ \E h \in Handles : PimplDefaultCtor(h)
    \/ \E h \in Handles : PimplDtor(h)

\* ------------------------------------------------------ specifications
\* the singleton, and no handle
SPInit ==
    /\ always_equal = TRUE
    /\ cells = <<>>
    /\ uh = [h \in Handles |-> NoHandle]
    /\ sh = [h \in Handles |-> NoHandle]
    /\ lastOp = [op |-> "none", dst |-> 0, src |-> 0]
    /\ nOps = 0
    /\ crashed = FALSE
    /\ KInit

\* the handles, and a singleton nobody uses
PSInit ==
    /\ kind = "heap" /\ thread_safe = FALSE /\ ndebug \in BOOLEAN
    /\ data_ = 0 /\ initialized_ = FALSE /\ bufObj = 0 /\ mu_ = 0 /\ inst = <<>>
    /\ pc = [t \in 1..NThreads |-> "idle"]
    /\ arg = [t \in 1..NThreads |-> 0]
    /\ p = [t \in 1..NThreads |-> 0]
    /\ first = [t \in 1..NThreads |-> "none"]
    /\ locked = [t \in 1..NThreads |-> FALSE]
    /\ frames = [t \in 1..NThreads |-> <<>>]
    /\ view = [t \in 1..NThreads |-> {}]
    /\ markerView = {} /\ muView = {}
    /\ nCalls = 0 /\ madeDirect = 0 /\ ret = 0
    /\ assert_failed = FALSE /\ exited = FALSE

\* every program of the singleton: get() calls, directly created objects
\* and their destruction, exit
Init == SInit /\ SPInit

Spec == Init /\ [][SNext]_vars

\* programs that only call get() and exit
SpecGet == Init /\ [][GetNext \/ Exit]_vars

\* the steps of a running thread-safe get() of thread t
GetStep(t) ==
    \/ HeapGetLock(t) \/ HeapGetRecheck(t) \/ HeapGetNew(t)
    \/ HeapGetConstructed(t) \/ HeapGetStore(t) \/ HeapGetReturn(t)
    \/ StackGetLock(t) \/ StackGetRecheck(t) \/ StackGetNew(t)
    \/ StackGetConstructed(t) \/ StackGetStore(t) \/ StackGetReturn(t)

\* programs that only call get() and exit, under a fair scheduler: a thread
\* that can take a step of its call eventually takes one, the return of T's
\* constructor included
SpecGetFair == SpecGet /\ \A t \in 1..NThreads : WF_vars(GetStep(t))

\* programs that use unique_heap_pimpl handles
InitUnique == PInit /\ PSInit

SpecUnique == InitUnique /\ [][UniqueNext]_vars

\* programs that use unique_heap_pimpl handles and respect the precondition
\* of swap
SpecContract == InitUnique /\ [][ContractNext]_vars

\* programs that use shared_heap_pimpl handles, which read neither
\* is_always_equal nor NDEBUG
InitShared == PInit /\ PSInit /\ always_equal /\ ndebug

SpecShared == InitShared /\ [][SharedNext]_vars

\* no singleton in use, no heap handle, no stack_pimpl object yet
KIdle ==
    /\ PSInit
    /\ always_equal = TRUE /\ cells = <<>>
    /\ uh = [h \in Handles |-> NoHandle]
    /\ sh = [h \in Handles |-> NoHandle]
    /\ lastOp = [op |-> "none", dst |-> 0, src |-> 0, val |-> 0]
    /\ nOps = 0 /\ crashed = FALSE
    /\ sp = [h \in Handles |-> NoPimpl]

\* built programs that use stack_pimpl objects of the default instantiation
InitPimpl ==
    KIdle /\ ndebug /\ layout = DefaultLayout /\ usesDtor = TRUE /\ phase = "built"

SpecPimpl == InitPimpl /\ [][PimplNext]_vars

\* every payload type and instantiation within the bounds, in a program that
\* destroys its stack_pimpl objects or never does
InitLayout ==
    KIdle /\ ndebug /\ layout \in Layouts /\ usesDtor \in BOOLEAN /\ phase = "source"

SpecLayout == InitLayout /\ [][LayoutNext]_vars

\* =================================================== properties: singleton
\* thread t is about to return from a multi-threaded get()
AtReturn(t) == pc[t] \in {"h164", "s304"}

\* the object the returning call hands to its caller: *p, or the buffer
Returned(t) == IF pc[t] = "h164" THEN p[t] ELSE bufObj

\* C1: in the thread-safe variants, when only get() is called, the payload
\* constructor runs at most once, a call that returns finds exactly one
\* payload ever constructed and returns it, and that payload was built with
\* the argument of one of the calls made.
C1_ConstructedOnce ==
    thread_safe =>
        /\ Len(inst) <= 1
        /\ \A t \in 1..NThreads : AtReturn(t) => Len(inst) = 1 /\ Returned(t) = 1
        /\ Len(inst) = 1 => inst[1].val \in 1..nCalls

\* a call whose first read saw an empty slot returns the payload that was
\* built with another call's argument
C1_Witness ==
    /\ thread_safe
    /\ \E t \in 1..NThreads :
          /\ AtReturn(t) /\ first[t] = "unset"
          /\ Len(inst) = 1 /\ Returned(t) = 1 /\ inst[1].val # arg[t]

\* C2: in the thread-safe variants, when only get() is called, the marker is
\* set only while the payload it announces is fully constructed, and a call
\* that returns holds a payload that is not under construction and whose
\* construction happens-before the return.
C2_NoPartialPayload ==
    thread_safe =>
        /\ data_ # 0 => inst[data_].st = "live"
        /\ initialized_ => bufObj # 0 /\ inst[bufObj].st = "live"
        /\ \A t \in 1..NThreads :
              AtReturn(t) =>
                  /\ Returned(t) # 0
                  /\ inst[Returned(t)].st # "constructing"
                  /\ Returned(t) \in view[t]

\* a call returns on the fast path, without the mutex, a payload that another
\* call constructed
C2_Witness ==
    /\ thread_safe
    /\ \E t \in 1..NThreads :
          /\ AtReturn(t) /\ first[t] = "set" /\ ~locked[t]
          /\ inst[Returned(t)].val # arg[t]

\* C3: in the thread-safe variants a call holds the mutex only if its first
\* read of the marker saw the slot uninitialized, and whoever holds the mutex
\* is such a call.
C3_FastPathLockFree ==
    \A t \in 1..NThreads :
        /\ locked[t] => first[t] = "unset"
        /\ mu_ = t => locked[t] /\ first[t] = "unset"

\* a call that saw the slot initialized is about to return while another
\* call holds the mutex
C3_Witness ==
    \E t, u \in 1..NThreads :
        /\ t # u /\ AtReturn(t) /\ first[t] = "set" /\ ~locked[t]
        /\ mu_ = u

\* C4: in the single-threaded variants, when only get() is called, the first
\* call constructs the payload with its own argument and every call returns
\* that payload: nothing else is ever constructed.
C4_FirstCallWins ==
    ~thread_safe =>
        /\ Len(inst) <= 1
        /\ nCalls >= 1 =>
              /\ Len(inst) = 1
              /\ inst[1].val = 1 /\ inst[1].st = "live"
              /\ ret = 1

\* a later call, made with another argument, has returned
C4_Witness == ~thread_safe /\ nCalls >= 2 /\ ret = 1 /\ inst[1].val # nCalls

\* C5, as the specification states it: get() after teardown never constructs
\* a second instance, that is, at most one payload is ever constructed.
C5_NeverSecondInstance == Len(inst) <= 1

\* C6, as the specification states it: the instance is destroyed exactly once,
\* not zero times by the time the process has exited, and never twice.
C6_DestroyedExactlyOnce ==
    /\ \A i \in 1..Len(inst) : inst[i].dtors <= 1 /\ inst[i].frees <= 1
    /\ exited => \A i \in 1..Len(inst) : inst[i].dtors = 1

\* the threads inside a destructor of the singleton base
InDtor == {t \in 1..NThreads : frames[t] # <<>>}

\* C7: the assertion fails only in a debug build and only after an object of
\* the derived type was created directly and its destruction began (so never
\* in a program that only calls get() and exits); and in a debug build no
\* destruction of such an object gets past the assertion: every thread that
\* began one is still inside it.
C7_AssertOnDirectUse ==
    /\ assert_failed => ~ndebug /\ madeDirect > 0
    /\ ~ndebug => Cardinality(InDtor) = madeDirect

\* the assertion has failed for an object created directly in a program that
\* never called get()
C7_Witness == assert_failed /\ nCalls = 0 /\ madeDirect = 1

\* the base-destructor frames in progress, of all threads
DtorFrames ==
    UNION {{frames[t][i] : i \in DOMAIN frames[t]} : t \in 1..NThreads}

\* the slot designates payload object n as the initialized instance
SlotReports(n) ==
    IF kind = "heap" THEN data_ = n ELSE initialized_ /\ bufObj = n

\* the frame is past the statement that clears the slot
PastClear(f) == f.pc \in {"delete", "free", "assert"}

SlowPath == {"h158", "h160", "h160c", "h161", "h164",
             "s299", "s300", "s300c", "s301", "s304"}

\* where a thread-safe get() waits for mu_
AtLock == {"h157", "s298"}

\* the mutex is held by exactly the call that locked it and has not yet
\* returned, a call waits for it only before its own critical section, and
\* no more than one payload construction ever takes place under it
MutexDiscipline ==
    /\ \A t \in 1..NThreads :
          /\ locked[t] <=> mu_ = t
          /\ locked[t] => pc[t] \in SlowPath
          /\ pc[t] \in AtLock => ~locked[t]
    /\ Len(inst) <= 1

\* C19: under a fair scheduler, with a payload constructor that returns,
\* every thread-safe get() that has started eventually returns; the mutex is
\* never held by a call that has returned; and at most one construction
\* ever runs under the mutex, so a waiting caller waits for no more than one.
C19_GetReturns ==
    /\ []MutexDiscipline
    /\ \A t \in 1..NThreads : (pc[t] # "idle") ~> (pc[t] = "idle")

\* a call waits for the mutex while another call, holding it, is inside the
\* payload's constructor
C19_Witness ==
    \E t, u \in 1..NThreads :
        /\ t # u /\ pc[t] \in AtLock
        /\ mu_ = u /\ pc[u] \in {"h160c", "s300c"}

\* the base destructor of a directly created object has run up to its assert
DirectDone(f) == f.self = 0 /\ f.pc = "assert"

\* the payload object the frame's destructor took from the slot, 0 if none
Victim(f) == IF kind = "heap" THEN f.tmp ELSE f.obj

\* C22: the base destructor acts on the slot, not on the object it is the
\* base of.  When the destructor of a directly created object has run, the
\* instance it found in the slot is no longer live; in the single-threaded
\* variants the slot is then empty and no instance get() ever returned is
\* live, the one the last get() returned included.  (In the thread-safe
\* stack variant the object in the buffer when r.~T() runs can be one that a
\* get() of another thread is constructing there.)
C22_DtorActsOnSlot ==
    \A f \in DtorFrames :
        DirectDone(f) =>
            /\ (Victim(f) # 0 /\ (kind = "heap" \/ ~thread_safe)) =>
                  inst[Victim(f)].st # "live"
            /\ ~thread_safe =>
                  /\ data_ = 0 /\ ~initialized_
                  /\ \A n \in DOMAIN inst : inst[n].st = "dead"
                  /\ ret # 0 => inst[ret].st = "dead"

\* single-threaded: get() returned an instance, then an object created
\* directly was destroyed, and its base destructor destroyed that instance
C22_Witness ==
    /\ ~thread_safe /\ nCalls > 0 /\ madeDirect = 1 /\ ret # 0
    /\ \E f \in DtorFrames : DirectDone(f) /\ Victim(f) = ret
    /\ inst[ret].st = "dead" /\ ~assert_failed

\* C23: the destructor is not serialised with get().  A thread inside the
\* base destructor never holds the mutex and never waits: its next statement
\* can run whoever holds the mutex.  A get() about to return hands out an
\* instance that is not live only in a thread-safe variant, and only once the
\* destruction of a directly created object has begun.
C23_DtorNotSerialized ==
    /\ \A t \in InDtor :
          /\ mu_ # t /\ ~locked[t]
          /\ Running => ENABLED DtorStep(t)
    /\ \A t \in 1..NThreads :
          (AtReturn(t) /\ Returned(t) # 0 /\ inst[Returned(t)].st # "live") =>
              thread_safe /\ madeDirect > 0

\* a get() read the marker as set and took the fast path; before it returned,
\* the destructor of another thread cleared the slot and began to destroy, or
\* destroyed, the instance the call is about to return
C23_Witness ==
    \E t, u \in 1..NThreads :
        /\ t # u /\ AtReturn(t) /\ first[t] = "set" /\ ~locked[t]
        /\ Returned(t) # 0 /\ inst[Returned(t)].st \in {"destroying", "dead"}
        /\ \E i \in DOMAIN frames[u] :
              PastClear(frames[u][i]) /\ Victim(frames[u][i]) = Returned(t)

\* ===================================================== properties: handles
\* the member functions that write to the payload of their handle
WriteOps == {"write", "value_assign", "rvalue_assign", "copy_assign"}

CopyCtorOps == {"copy_ctor", "copy_ctor_alloc"}

MoveCtorOps == {"move_ctor", "move_ctor_alloc"}

CtorOps == {"default_ctor", "alloc_ctor", "value_ctor", "value_ctor_alloc",
            "rvalue_ctor", "rvalue_ctor_alloc"} \cup CopyCtorOps \cup MoveCtorOps

\* no two live unique handles hold the same allocation
UNoSharing ==
    \A h \in Handles : \A g \in (h + 1)..NHandles :
        UDeref(h) /\ UDeref(g) => uh[h].ptr # uh[g].ptr

\* C8: no two live unique_heap_pimpl handles ever refer to the same payload;
\* a copy constructor (with or without an allocator) makes one new allocation,
\* live and holding the value of the source's payload, binds the new handle
\* to it and leaves the source and every older allocation as they were; and
\* a write through one handle leaves the value read through every other
\* handle unchanged.
C8_CopyIsDeep ==
    [][ /\ UNoSharing'
        /\ (lastOp'.op \in CopyCtorOps /\ ~crashed') =>
              /\ Len(cells') = Len(cells) + 1
              /\ uh'[lastOp'.dst] = [st |-> "alive", ptr |-> Len(cells'),
                                      del |-> cells'[Len(cells')].by]
              /\ cells'[Len(cells')].st = "live"
              /\ cells'[Len(cells')].val = cells[uh[lastOp'.src].ptr].val
              /\ uh'[lastOp'.src] = uh[lastOp'.src]
              /\ \A c \in 1..Len(cells) : cells'[c] = cells[c]
        /\ (lastOp'.op \in WriteOps /\ ~crashed') =>
              \A g \in Handles :
                  (g # lastOp'.dst /\ UDeref(g)) =>
                      /\ uh'[g] = uh[g]
                      /\ cells'[uh[g].ptr] = cells[uh[g].ptr]
      ]_vars

\* a handle was just copy-constructed from a handle whose payload does not
\* hold the default value: two allocations, the same value
C8_Witness ==
    /\ lastOp.op \in CopyCtorOps /\ ~crashed
    /\ uh[lastOp.dst].ptr # uh[lastOp.src].ptr
    /\ cells[uh[lastOp.dst].ptr].val = cells[uh[lastOp.src].ptr].val
    /\ cells[uh[lastOp.src].ptr].val # DefaultVal

\* C9: copy construction and copy assignment of a shared_heap_pimpl leave the
\* target holding the very allocation the source holds, the source and that
\* allocation untouched; and a write through a handle (value assignment
\* included) changes the one allocation the handle holds in place, binding
\* no handle to anything else, so that every handle sharing it reads the
\* written value.
C9_CopyShares ==
    [][ /\ (lastOp'.op \in {"copy_ctor", "copy_assign"}) =>
              /\ sh'[lastOp'.dst].st = "alive"
              /\ sh'[lastOp'.dst].ptr = sh[lastOp'.src].ptr
              /\ sh'[lastOp'.src].ptr = sh[lastOp'.src].ptr
              /\ sh[lastOp'.src].ptr # 0 =>
                    cells'[sh[lastOp'.src].ptr] = cells[sh[lastOp'.src].ptr]
        /\ (lastOp'.op \in {"write", "value_assign", "rvalue_assign"} /\ ~crashed') =>
              /\ sh' = sh
              /\ \E v \in PVals : cells' = [cells EXCEPT ![sh[lastOp'.dst].ptr].val = v]
              /\ \A g \in Holders(sh, sh[lastOp'.dst].ptr) :
                    cells'[sh'[g].ptr].val = cells'[sh'[lastOp'.dst].ptr].val
      ]_vars

\* a value was just assigned through a handle that shares its payload with
\* another live handle, and both read a value that is not the default
C9_Witness ==
    /\ lastOp.op = "value_assign" /\ ~crashed
    /\ \E g \in Handles :
          /\ g # lastOp.dst /\ SAlive(g)
          /\ sh[g].ptr = sh[lastOp.dst].ptr
          /\ SGet(g) # DefaultVal

\* C10, as the specification states it: a handle constructed by move from a
\* same-typed handle has adopted the source's allocation, and the source is
\* left empty.
C10_MoveLeavesSourceEmpty ==
    (lastOp.op \in MoveCtorOps /\ ~crashed) => uh[lastOp.src].ptr = 0

\* C10, amended: every constructor leaves the new handle owning exactly one
\* live payload, which is the newest allocation and is held by no other live
\* handle; no constructor adopts an allocation.  After construction by move
\* the source still holds its own live allocation, another one than the new
\* handle's; and after a destructor every live non-empty handle still holds
\* a live payload.
C10_CtorAllocatesFresh ==
    /\ UNoSharing
    /\ (lastOp.op \in CtorOps /\ ~crashed) =>
          /\ UAlive(lastOp.dst)
          /\ uh[lastOp.dst].ptr = Len(cells)
          /\ cells[Len(cells)].st = "live"
    /\ (lastOp.op \in MoveCtorOps /\ ~crashed) =>
          /\ UDeref(lastOp.src)
          /\ uh[lastOp.src].ptr # uh[lastOp.dst].ptr
          /\ cells[uh[lastOp.src].ptr].st = "live"
    /\ lastOp.op = "dtor" =>
          \A g \in Handles : UDeref(g) => cells[uh[g].ptr].st = "live"

\* a handle was just move-constructed, and its source still holds an
\* allocation of its own
C10_Witness ==
    /\ lastOp.op \in MoveCtorOps /\ ~crashed
    /\ uh[lastOp.src].ptr # 0
    /\ uh[lastOp.src].ptr # uh[lastOp.dst].ptr

\* the unique_heap_pimpl assignments that write through to the payload
UInPlaceOps == {"copy_assign", "value_assign", "rvalue_assign"}

\* C11: copy assignment from a handle and assignment from a value (const& or
\* &&) leave every unique_heap_pimpl handle holding the allocation it held,
\* make no allocation and release none, and change nothing but the value of
\* the target's payload (to the source's value, for copy assignment from
\* another handle); move assignment from another handle gives the target the
\* source's allocation untouched, leaves the source empty, releases the
\* allocation the target held before and makes no allocation.
C11_AssignInPlace ==
    [][ /\ (lastOp'.op \in UInPlaceOps /\ ~crashed') =>
              /\ uh' = uh
              /\ Len(cells') = Len(cells)
              /\ \A c \in 1..Len(cells) :
                     /\ cells'[c].st = cells[c].st
                     /\ cells'[c].by = cells[c].by
                     /\ c # uh[lastOp'.dst].ptr => cells'[c] = cells[c]
              /\ (lastOp'.op = "copy_assign" /\ lastOp'.dst # lastOp'.src) =>
                     cells'[uh[lastOp'.dst].ptr].val = cells[uh[lastOp'.src].ptr].val
        /\ (lastOp'.op = "move_assign" /\ lastOp'.dst # lastOp'.src) =>
              /\ uh'[lastOp'.dst].ptr = uh[lastOp'.src].ptr
              /\ uh'[lastOp'.src].ptr = 0
              /\ Len(cells') = Len(cells)
              /\ uh[lastOp'.dst].ptr # 0 =>
                     /\ cells[uh[lastOp'.dst].ptr].st = "live"
                     /\ cells'[uh[lastOp'.dst].ptr].st # "live"
              /\ \A c \in 1..Len(cells) :
                     c # uh[lastOp'.dst].ptr => cells'[c] = cells[c]
      ]_vars

\* a handle was just move-assigned from another handle: it holds a live
\* allocation that is not the newest one, the source is empty, and the
\* allocation it held before has been released
C11_Witness ==
    /\ lastOp.op = "move_assign" /\ lastOp.dst # lastOp.src
    /\ uh[lastOp.src].ptr = 0
    /\ UDeref(lastOp.dst) /\ cells[uh[lastOp.dst].ptr].st = "live"
    /\ \E c \in 1..Len(cells) : cells[c].st = "freed"

\* C12: in a build without NDEBUG, a swap of two unique_heap_pimpl handles
\* whose allocator type is not always-equal and whose allocator instances are
\* unequal fails the assertion of line 428 and exchanges nothing: both handles
\* and every allocation are as before; and no other swap fails an assertion.
C12_SwapUnequalAsserts ==
    [][ (lastOp'.op = "swap") =>
          /\ (~always_equal /\ ~ndebug
                  /\ uh[lastOp'.dst].del # uh[lastOp'.src].del) =>
                 crashed' /\ uh' = uh /\ cells' = cells
          /\ crashed' =>
                 /\ ~always_equal /\ ~ndebug
                 /\ uh[lastOp'.dst].del # uh[lastOp'.src].del
      ]_vars

\* a swap of two non-empty handles with unequal allocators has just failed
\* the assertion, each handle still holding its own allocation
C12_Witness ==
    /\ lastOp.op = "swap" /\ crashed /\ ~ndebug /\ ~always_equal
    /\ uh[lastOp.dst].del # uh[lastOp.src].del
    /\ UDeref(lastOp.dst) /\ UDeref(lastOp.src)
    /\ cells[uh[lastOp.dst].ptr].by = uh[lastOp.dst].del
    /\ cells[uh[lastOp.src].ptr].by = uh[lastOp.src].del

\* C13: a swap of two unique_heap_pimpl handles whose allocators are
\* always-equal or compare equal leaves each handle holding the allocation
\* the other held before, and leaves every allocation as it was: no payload
\* is copied, moved, constructed or destroyed, and both values are unchanged.
C13_SwapExchanges ==
    [][ (lastOp'.op = "swap"
            /\ (always_equal \/ AllocEqual(uh[lastOp'.dst].del, uh[lastOp'.src].del))) =>
          /\ ~crashed'
          /\ uh'[lastOp'.dst].ptr = uh[lastOp'.src].ptr
          /\ uh'[lastOp'.src].ptr = uh[lastOp'.dst].ptr
          /\ AllocEqual(uh'[lastOp'.dst].del, uh[lastOp'.src].del)
          /\ AllocEqual(uh'[lastOp'.src].del, uh[lastOp'.dst].del)
          /\ \A g \in Handles :
                 (g # lastOp'.dst /\ g # lastOp'.src) => uh'[g] = uh[g]
          /\ cells' = cells
      ]_vars

\* two handles holding different values have just been swapped, and each
\* reads the value the other was constructed with
C13_Witness ==
    /\ lastOp.op = "swap" /\ ~crashed /\ lastOp.dst # lastOp.src
    /\ UDeref(lastOp.dst) /\ UDeref(lastOp.src)
    /\ uh[lastOp.dst].ptr > uh[lastOp.src].ptr
    /\ lastOp.dst < lastOp.src
    /\ UGet(lastOp.dst) # UGet(lastOp.src)

\* a member function has dereferenced a null ptr_
NullDeref == crashed /\ lastOp.op # "swap"

\* C14: no live unique_heap_pimpl handle holds an allocation that has been
\* released, and no member function ever dereferences a handle that holds no
\* payload.
C14_NoDanglingNoNullDeref ==
    /\ \A h \in Handles : UDeref(h) => cells[uh[h].ptr].st = "live"
    /\ ~NullDeref

\* the member functions that make a shared_heap_pimpl handle let go of the
\* allocation it holds
SLetGoOps == {"dtor", "copy_assign", "move_assign"}

\* C15: an allocation made for a shared_heap_pimpl is live exactly while some
\* live handle holds it; it is destroyed in the very step in which its last
\* holder is destroyed or assigned another handle, through the allocator that
\* made it; and once destroyed it is never touched again.
C15_SharedDestroyedOnce ==
    [][ \A c \in 1..Len(cells') :
          /\ (cells'[c].st = "live") <=> (Holders(sh', c) # {})
          /\ cells'[c].st # "misfreed"
          /\ c <= Len(cells) =>
                /\ cells[c].st # "live" => cells'[c] = cells[c]
                /\ (cells[c].st = "live" /\ cells'[c].st # "live") =>
                      /\ lastOp'.op \in SLetGoOps
                      /\ Holders(sh, c) = {lastOp'.dst}
                      /\ Holders(sh', c) = {}
      ]_vars

\* two handles shared one payload and both have been destroyed: the payload
\* is the only allocation ever made, and it is destroyed
C15_Witness ==
    /\ lastOp.op = "dtor"
    /\ \A h \in Handles : sh[h].st = "dead"
    /\ Len(cells) = 1 /\ cells[1].st = "freed"

\* the constructors from another handle that take no allocator argument
UFromHandleCtors == {"copy_ctor", "move_ctor"}

\* C24: a unique_heap_pimpl copy- or move-constructed from another handle
\* without an allocator argument allocates with, and is bound to, a
\* default-constructed allocator, whatever allocator the source is bound to,
\* and the source keeps its own.  Hence, with an allocator type that is not
\* always equal and a source bound to another allocator, swapping the new
\* handle and its source right after fails swap's assertion in a debug
\* build.
C24_CopyBindsDefaultAllocator ==
    [][ /\ (lastOp'.op \in UFromHandleCtors /\ ~crashed') =>
              /\ uh'[lastOp'.dst].del = DefaultAlloc
              /\ cells'[uh'[lastOp'.dst].ptr].by = DefaultAlloc
              /\ uh'[lastOp'.src].del = uh[lastOp'.src].del
        /\ ( /\ lastOp.op \in UFromHandleCtors /\ lastOp'.op = "swap"
             /\ {lastOp'.dst, lastOp'.src} = {lastOp.dst, lastOp.src}
             /\ ~always_equal /\ ~ndebug
             /\ ~AllocEqual(uh[lastOp.src].del, DefaultAlloc) ) =>
              crashed' /\ uh' = uh
      ]_vars

\* the allocator type is not always equal, and a handle bound to an allocator
\* other than the default one was copied or moved from: the new handle and
\* its source carry unequal allocators
C24_Witness ==
    /\ lastOp.op \in UFromHandleCtors /\ ~always_equal /\ ~crashed
    /\ uh[lastOp.dst].del = DefaultAlloc
    /\ ~AllocEqual(uh[lastOp.src].del, uh[lastOp.dst].del)
    /\ UDeref(lastOp.dst) /\ UDeref(lastOp.src)

\* the live handles that hold allocation c
UHolders(c) == {h \in Handles : UAlive(h) /\ uh[h].ptr = c}

\* C25: in a program that calls swap only where its precondition holds, a
\* payload is live exactly while one live handle holds it, and the deleter of
\* that handle is bound to an allocator equal to the one that allocated it; a
\* payload no handle holds has been destroyed and deallocated exactly once,
\* by an allocator equal to the one that allocated it.  So once every handle
\* is destroyed every payload has been released exactly once, by such an
\* allocator.
C25_FreedOnceByEqualAllocator ==
    \A c \in DOMAIN cells :
        /\ cells[c].frees <= 1
        /\ cells[c].st # "misfreed"
        /\ cells[c].st = "live" <=> cells[c].frees = 0
        /\ cells[c].st = "live" <=> Cardinality(UHolders(c)) = 1
        /\ cells[c].st = "freed" <=> UHolders(c) = {}
        /\ \A h \in UHolders(c) : AllocEqual(uh[h].del, cells[c].by)

\* with an allocator type that is not always equal, a handle took by move
\* assignment the payload of a handle bound to another allocator, and was
\* destroyed: both payloads were released, each by its own allocator
C25_Witness ==
    /\ ~always_equal /\ lastOp.op = "dtor" /\ ~crashed
    /\ Len(cells) >= 2
    /\ \A c \in DOMAIN cells : cells[c].st = "freed" /\ cells[c].frees = 1
    /\ \E c, d \in DOMAIN cells : ~AllocEqual(cells[c].by, cells[d].by)
    /\ \E h \in Handles : UAlive(h) /\ uh[h].ptr = 0

\* ================================================= properties: stack_pimpl
\* the member functions that write the value they are given to the payload
BValueOps == {"value_ctor", "rvalue_ctor", "value_assign", "rvalue_assign", "write"}

\* the member functions that give the payload the value of another handle's
BFromHandleOps == {"copy_ctor", "copy_assign", "move_ctor", "move_assign"}

\* C16: a stack_pimpl reads like a plain value.  After default construction
\* get() is the default value; after construction from, assignment of or a
\* write of a value through the handle get() is that value; after copy or
\* move construction or assignment from a handle get() is what the source
\* read before; after swap each handle reads what the other read before; a
\* copy leaves the source unchanged; and no member function changes what any
\* handle other than its operands reads.
C16_PlainValue ==
    [][ /\ lastOp'.op = "default_ctor" => sp'[lastOp'.dst].val = DefaultVal
        /\ lastOp'.op \in BValueOps => sp'[lastOp'.dst].val = lastOp'.val
        /\ lastOp'.op \in BFromHandleOps =>
              sp'[lastOp'.dst].val = BGet(lastOp'.src)
        /\ lastOp'.op \in {"copy_ctor", "copy_assign"} =>
              sp'[lastOp'.src].val = sp[lastOp'.src].val
        /\ lastOp'.op = "swap" =>
              /\ sp'[lastOp'.dst].val = BGet(lastOp'.src)
              /\ sp'[lastOp'.src].val = BGet(lastOp'.dst)
        /\ \A g \in Handles :
              (g # lastOp'.dst /\ g # lastOp'.src /\ BAlive(g)) => sp'[g] = sp[g]
        /\ \A g \in Handles :
              (BAlive(g) /\ lastOp'.op # "dtor") => sp'[g].st = "alive"
      ]_vars

\* a value that is not the default was assigned to a handle constructed by
\* default, and is what the handle reads
C16_Witness ==
    /\ lastOp.op = "value_assign" /\ lastOp.val # DefaultVal
    /\ BAlive(lastOp.dst) /\ BGet(lastOp.dst) = lastOp.val
    /\ \E g \in Handles : g # lastOp.dst /\ BAlive(g) /\ BGet(g) # lastOp.val

\* C17: a program is built exactly when the declared buffer matches the
\* payload type, Size = sizeof(T) and Alignment >= alignof(T); with any other
\* pair the build fails.
C17_MismatchNeverBuilt ==
    phase # "source" =>
        (phase = "built" <=>
            (layout.Size = layout.sizeofT /\ layout.Alignment >= layout.alignofT))

\* C20: the buffer of a stack_pimpl has seen no payload constructor before
\* the handle is constructed, exactly one constructor call and no destructor
\* call while the handle lives, and exactly one of each once the handle is
\* destroyed.
C20_OneCtorOneDtor ==
    \A h \in Handles :
        /\ sp[h].st = "none"  => sp[h].ctors = 0 /\ sp[h].dtors = 0
        /\ sp[h].st = "alive" => sp[h].ctors = 1 /\ sp[h].dtors = 0
        /\ sp[h].st = "dead"  => sp[h].ctors = 1 /\ sp[h].dtors = 1

\* a handle was constructed, assigned to and destroyed
C20_Witness ==
    /\ lastOp.op = "dtor" /\ nOps >= 3
    /\ sp[lastOp.dst] = [st |-> "dead", val |-> 0, at |-> 0, ctors |-> 1, dtors |-> 1]

\* C21: stack_pimpl::swap exchanges the contents of the two payloads: after it
\* each handle reads the value the other read before.  Each payload object
\* stays in the buffer of its own handle: the address get() returns is the
\* address the payload was constructed at, before and after swap and for as
\* long as the handle lives, and swap runs no constructor or destructor in
\* either buffer.
C21_SwapInPlace ==
    [][ /\ lastOp'.op = "swap" =>
              /\ sp'[lastOp'.dst].val = BGet(lastOp'.src)
              /\ sp'[lastOp'.src].val = BGet(lastOp'.dst)
              /\ \A g \in {lastOp'.dst, lastOp'.src} :
                    /\ sp'[g].st = "alive"
                    /\ sp'[g].at = sp[g].at
                    /\ sp'[g].ctors = sp[g].ctors /\ sp'[g].dtors = sp[g].dtors
        /\ \A g \in Handles :
              /\ BAlive(g) => sp[g].at = BAddr(g)
              /\ (sp'[g].st = "alive") => sp'[g].at = BAddr(g)
      ]_vars

\* two handles that read different values were swapped
C21_Witness ==
    /\ lastOp.op = "swap" /\ lastOp.dst # lastOp.src
    /\ BAlive(lastOp.dst) /\ BAlive(lastOp.src)
    /\ BGet(lastOp.dst) # BGet(lastOp.src)
    /\ sp[lastOp.dst].at = BAddr(lastOp.dst) /\ sp[lastOp.src].at = BAddr(lastOp.src)

=============================================================================
